---- MODULE Spec2Model ----
(***************************************************************************)
(* A model of the ARDB storage-cluster code of zero-os/0-Disk:             *)
(*   - the routing functions ComputeServerIndex and FindFirstServerIndex,  *)
(*   - the static clusters (UniCluster, Cluster): construction, Do, DoFor  *)
(*     and the concurrent DoForAll.                                        *)
(* Go slices are modelled as sequences; a Go index i is element i + 1.     *)
(***************************************************************************)
EXTENDS Integers, Sequences, FiniteSets, TLC

VARIABLES
    route,      \* the running ComputeServerIndex / FindFirstServerIndex call
    cluster,    \* the constructed UniCluster / Cluster (or NoCluster)
    newCall,    \* the constructor call made: its config and its error
    call,       \* the Do / DoFor / DoForAll call in progress
    mainPc,     \* where the calling goroutine is
    servers,    \* DoForAll: map serverIndex -> IndexActionMap
    worker,     \* DoForAll: the goroutine spawned per serverIndex
    chClosed,   \* DoForAll: the result channel was closed
    ctxDone,    \* DoForAll: the context was cancelled
    replies,    \* DoForAll: the reply vector being collected
    result,     \* what the call returned: [replies, err]
    doAtLog,    \* per server, the actions applied by doAt and their outcome
    dyn,        \* the PrimaryCluster / TemplateCluster: servers, serverCount
    watcher,    \* the reloader's storageClusterWatcher
    inner,      \* the cluster-config watchers opened at the config source
    reloader,   \* the config-update goroutine: its position, what it holds
    dynCtx,     \* the reloader's context: "live" or "done" (cancelled)
    invalidKeys,\* the keys marked invalid at the config source
    dynCall,    \* the Do / DoFor call in progress on the dynamic cluster
    shard,      \* the LBA shard: hashes, dirty
    shardOp,    \* the last operation on the shard and what it gave
    bfIn,       \* the source block fetcher: its stream and how far it is read
    ibf,        \* the inflationBlockFetcher
    dbf,        \* the deflationBlockFetcher
    fetched,    \* the consumer of the fetcher chain: what FetchBlock gave
    ftp,        \* the ftpDriver and the FTP server it talks to
    ftpOp,      \* the last call on the ftpDriver and what it gave
    iter,       \* the goroutine of Cluster.ServerIterator and its channel
    factory     \* the ClusterClientFactory: Listen and the NewClient callers

routeVars == <<route>>
clusterVars == <<cluster, newCall, call, mainPc, servers, worker, chClosed,
                 ctxDone, replies, result, doAtLog>>
dynVars == <<dyn, watcher, inner, reloader, dynCtx, invalidKeys, dynCall>>
shardVars == <<shard, shardOp>>
\* what an action on a dynamic cluster leaves alone
fetchVars == <<bfIn, ibf, dbf, fetched>>
ftpVars == <<ftp, ftpOp>>
iterVars == <<iter>>
factoryVars == <<factory>>
backupVars == <<fetchVars, ftpVars>>
staticVars == <<route, clusterVars, iterVars, factoryVars, shardVars,
                backupVars>>
otherVars == <<iterVars, factoryVars, dynVars, shardVars, backupVars>>
vars == <<route, cluster, newCall, call, mainPc, servers, worker, chClosed,
          ctxDone, replies, result, doAtLog, dyn, watcher, inner, reloader,
          dynCtx, invalidKeys, dynCall, shard, shardOp, bfIn, ibf, dbf,
          fetched, ftp, ftpOp, iter, factory>>

---------------------------------------------------------------------------
(* Bounds of the model. *)

\* the largest serverCount given to the routing functions
MaxServerCount == 5
\* the largest objectIndex given to ComputeServerIndex
MaxObjectIndex == 7
\* the cap on the iterations of ComputeServerIndex's outer loop
MaxRounds == 24
\* the longest server list of a cluster config
MaxServers == 3
\* the longest pairs slice given to DoForAll
MaxPairs == 3
\* the largest objectIndex given to DoFor and paired in DoForAll
MaxPairIndex == 3

---------------------------------------------------------------------------
(* Values. *)

\* a nil error
Nil == "nil"

\* no cluster was constructed
NoCluster ==
    [kind |-> "none", servers |-> <<>>, serverCount |-> 0,
     availableServerCount |-> 0]

NoNewCall == [fn |-> "none", cfg |-> <<>>, valid |-> TRUE, err |-> Nil]

NoCall == [op |-> "none", objectIndex |-> 0, action |-> [kind |-> "none"],
           pairs |-> <<>>]

\* a nil reply (the zero value of interface{})
NilReply == [server |-> -1, command |-> 0]

NoResult == [reply |-> NilReply, replies |-> <<>>, err |-> Nil,
             errServerIndex |-> -1]

ErrServerUnavailable == "ErrServerUnavailable"
ErrNoServersAvailable == "ErrNoServersAvailable"
ErrServerStateNotSupported == "ErrServerStateNotSupported"

\* what a ServerIndexPredicate answers for an index:
\* (true, nil), (false, nil) or (false, err)
PredicateAnswers == {"operational", "dead", "error"}

PredicateOk(predicate, serverIndex) == predicate[serverIndex] = "operational"

PredicateErr(predicate, serverIndex) ==
    IF predicate[serverIndex] = "error" THEN ErrServerUnavailable ELSE Nil

---------------------------------------------------------------------------
(* uint64 arithmetic. TLC's integers are 32 bits wide, so a uint64 is six  *)
(* limbs of 11 bits, least significant first; the sixth holds bits 55..63. *)

Limb == 2 ^ 11

\* 2862933555777941757 in limbs
Multiplier == <<253, 1558, 542, 1907, 946, 79>>

\* uint64(objectIndex), for 0 <= objectIndex < 2^31
Uint64(x) == <<x % Limb, (x \div Limb) % Limb, (x \div (Limb * Limb)) % Limb, 0, 0, 0>>

RECURSIVE ColumnSum(_, _, _)
ColumnSum(key, i, a) ==
    IF a > i THEN 0
    ELSE key[a] * Multiplier[i + 1 - a] + ColumnSum(key, i, a + 1)

\* key*2862933555777941757 + 1 (mod 2^64)
NextKey(key) ==
    LET carry[i \in 0..6] ==
            IF i = 0 THEN 1
            ELSE (ColumnSum(key, i, 1) + carry[i - 1]) \div Limb
    IN  [i \in 1..6 |->
            LET t == ColumnSum(key, i, 1) + carry[i - 1]
            IN  IF i = 6 THEN t % (Limb \div 4) ELSE t % Limb]

\* key >> 33
KeyHigh(key) == key[4] + key[5] * Limb + key[6] * Limb * Limb

\* int64(float64(serverIndex+1) * (float64(int64(1)<<31) / float64((key>>33)+1))),
\* capped at serverCount (the loop only compares it with serverCount):
\* the largest m with m * (high+1) <= (serverIndex+1) * 2^31. The quotient
\* and the product are each rounded once (relative error 2^-52), which on
\* these operands never carries the product across an integer below
\* serverCount, so the truncated float64 product is the exact quotient.
NextJump(serverIndex, high, serverCount) ==
    LET hh == high \div 65536
        hl == high % 65536
        Fits(m) == m * hh + ((m * (hl + 1) + 65535) \div 65536)
                        <= (serverIndex + 1) * 32768
    IN  CHOOSE m \in 0..serverCount :
            Fits(m) /\ (m = serverCount \/ ~Fits(m + 1))

\* the inner loop of ComputeServerIndex: jumpConsistentHash
RECURSIVE jumpConsistentHash(_, _, _, _)
jumpConsistentHash(serverCount, key, j, serverIndex) ==
    IF j < serverCount
    THEN LET k == NextKey(key)
         IN  jumpConsistentHash(serverCount, k,
                                NextJump(j, KeyHigh(k), serverCount), j)
    ELSE serverIndex

\* jumpConsistentHash of every (serverCount, objectIndex) the model routes,
\* computed once
JumpTable ==
    [serverCount \in 1..(IF MaxServerCount > MaxServers
                         THEN MaxServerCount ELSE MaxServers),
     objectIndex \in 0..(MaxObjectIndex + MaxPairIndex + MaxRounds) |->
        jumpConsistentHash(serverCount, Uint64(objectIndex), 0, 0)]

---------------------------------------------------------------------------
(* ComputeServerIndex and FindFirstServerIndex. *)

RouteIdle ==
    [op |-> "none", pc |-> "idle", serverCount |-> 0, predicate |-> <<>>,
     input |-> 0, objectIndex |-> 0, serverIndex |-> 0, err |-> Nil,
     queried |-> <<>>, rounds |-> 0]

\* mutant: the modulo sharding is left out, the jump hash is used at once
ModuloIndex_JumpHash(serverCount, objectIndex) ==
    JumpTable[serverCount, objectIndex]

\* serverIndex = objectIndex % serverCount
ModuloIndex(serverCount, objectIndex) == objectIndex % serverCount

\* mutant: if ok || err == nil { return }
PredicateStops_ErrNil(predicate, serverIndex) ==
    PredicateOk(predicate, serverIndex) \/ PredicateErr(predicate, serverIndex) = Nil

\* mutant: if ok { return }
PredicateStops_OkOnly(predicate, serverIndex) ==
    PredicateOk(predicate, serverIndex)

\* if ok || err != nil { return }
PredicateStops(predicate, serverIndex) ==
    PredicateOk(predicate, serverIndex) \/ PredicateErr(predicate, serverIndex) # Nil

\* mutant: the object index is not incremented
NextObjectIndex_Same(objectIndex) == objectIndex

\* objectIndex++
NextObjectIndex(objectIndex) == objectIndex + 1

\* the entry of ComputeServerIndex: the modulo sharding is tried first
ModuloTry(serverCount, objectIndex, predicate) ==
    LET serverIndex == ModuloIndex(serverCount, objectIndex)
    IN  [op |-> "ComputeServerIndex",
         pc |-> IF PredicateStops(predicate, serverIndex) THEN "done" ELSE "loop",
         serverCount |-> serverCount, predicate |-> predicate,
         input |-> objectIndex, objectIndex |-> objectIndex,
         serverIndex |-> serverIndex,
         err |-> PredicateErr(predicate, serverIndex),
         queried |-> <<serverIndex>>, rounds |-> 0]

\* one iteration of the outer loop of ComputeServerIndex
JumpRound(st) ==
    LET serverIndex == JumpTable[st.serverCount, st.objectIndex]
        stops == PredicateStops(st.predicate, serverIndex)
    IN  [st EXCEPT !.serverIndex = serverIndex,
                   !.err = PredicateErr(st.predicate, serverIndex),
                   !.queried = Append(@, serverIndex),
                   !.rounds = @ + 1,
                   !.pc = IF stops THEN "done" ELSE "loop",
                   !.objectIndex = IF stops THEN @ ELSE NextObjectIndex(@)]

RECURSIVE RunRounds(_, _)
RunRounds(st, fuel) ==
    IF st.pc # "loop" \/ fuel = 0 THEN st
    ELSE RunRounds(JumpRound(st), fuel - 1)

\* ComputeServerIndex run to its return; pc = "loop" in the result says
\* that it did not return within MaxRounds iterations
ComputeServerIndex(serverCount, objectIndex, predicate) ==
    RunRounds(ModuloTry(serverCount, objectIndex, predicate), MaxRounds)

RECURSIVE FindFirstLoop(_, _, _, _)
FindFirstLoop(serverCount, predicate, serverIndex, queried) ==
    IF serverIndex < serverCount
    THEN IF PredicateStops(predicate, serverIndex)
         THEN [serverIndex |-> serverIndex,
               err |-> PredicateErr(predicate, serverIndex),
               queried |-> Append(queried, serverIndex)]
         ELSE FindFirstLoop(serverCount, predicate, serverIndex + 1,
                            Append(queried, serverIndex))
    ELSE [serverIndex |-> -1, err |-> ErrNoServersAvailable, queried |-> queried]

\* mutant: the search starts at index 1
FindFirstServerIndex_FromOne(serverCount, predicate) ==
    FindFirstLoop(serverCount, predicate, 1, <<>>)

FindFirstServerIndex(serverCount, predicate) ==
    FindFirstLoop(serverCount, predicate, 0, <<>>)

Predicates(serverCount) == [0..(serverCount - 1) -> PredicateAnswers]

\* the zero value of PrimaryCluster / TemplateCluster: nothing constructed
NoDyn == [kind |-> "none", servers |-> <<>>, serverCount |-> 0]

\* the zero value of storageClusterWatcher; channel and cancel name an inner
\* watcher by its position in inner, 0 is nil
NoWatcher == [clusterID |-> "", channel |-> 0, cancel |-> 0]

\* the zero value of config.StorageClusterConfig
NoConfig == [Servers |-> <<>>, valid |-> FALSE]

NoReloader == [pc |-> "none", cfg |-> NoConfig]

NoDynCall ==
    [op |-> "none", objectIndex |-> 0, pc |-> "idle", serverIndex |-> -1,
     err |-> Nil, reply |-> NilReply, dialed |-> FALSE, broadcast |-> FALSE]

DynIdle ==
    /\ dyn = NoDyn
    /\ watcher = NoWatcher
    /\ inner = <<>>
    /\ reloader = NoReloader
    /\ dynCtx = "live"
    /\ invalidKeys = {}
    /\ dynCall = NoDynCall

\* no shard yet
NoShard == [hashes |-> <<>>, dirty |-> FALSE]

NoShardOp == [op |-> "none", hashIndex |-> 0, hash |-> <<>>, err |-> Nil,
              raw |-> <<>>, written |-> <<>>]

ShardIdle == shard = NoShard /\ shardOp = NoShardOp

\* no block fetcher yet
NoIn == [stream |-> <<>>, pos |-> 0, calls |-> 0, errAt |-> 0]

NoIbf == [srcBS |-> 0, dstBS |-> 0, ratio |-> 0, output |-> <<>>,
          offset |-> 0, prevIndex |-> 0]

NoDbf == [srcBS |-> 0, dstBS |-> 0, ratio |-> 0, cb |-> <<>>, cbi |-> -1]

NoFetched == [chain |-> "none", pairs |-> <<>>, err |-> Nil]

\* no ftpDriver yet; dirs and files are what the FTP server holds
NoFtp == [made |-> FALSE, root |-> <<>>, knownDirs |-> {}, dirs |-> {},
          files |-> {}]

NoFtpOp == [op |-> "none", hash |-> <<>>, content |-> <<>>, err |-> Nil,
            path |-> <<>>, stored |-> FALSE]

BackupIdle ==
    /\ bfIn = NoIn
    /\ ibf = NoIbf
    /\ dbf = NoDbf
    /\ fetched = NoFetched
    /\ ftp = NoFtp
    /\ ftpOp = NoFtpOp

\* no ServerIterator call yet
NoIter == [pc |-> "none", i |-> 0, ch |-> <<>>, closed |-> FALSE,
           ctxDone |-> FALSE]

\* no ClusterClientFactory yet
NoClient == [made |-> FALSE, vdiskID |-> ""]

\* Listen before it is called; from is the caller whose request it handles
NoListen == [pc |-> "none", Client |-> NoClient, Error |-> Nil, from |-> 0]

NoFactory == [made |-> FALSE, err |-> Nil, ctxDone |-> FALSE,
              listen |-> NoListen, callers |-> <<>>, produced |-> <<>>]

OtherIdle ==
    DynIdle /\ ShardIdle /\ BackupIdle /\ iter = NoIter /\ factory = NoFactory

ClusterIdle ==
    /\ cluster = NoCluster
    /\ newCall = NoNewCall
    /\ call = NoCall
    /\ mainPc = "idle"
    /\ servers = <<>>
    /\ worker = <<>>
    /\ chClosed = FALSE
    /\ ctxDone = FALSE
    /\ replies = <<>>
    /\ result = NoResult
    /\ doAtLog = <<>>

RouteInit == route = RouteIdle /\ ClusterIdle /\ OtherIdle

ComputeServerIndexCall ==
    /\ route.pc = "idle"
    /\ \E serverCount \in 1..MaxServerCount, objectIndex \in 0..MaxObjectIndex :
         \E predicate \in Predicates(serverCount) :
            route' = ModuloTry(serverCount, objectIndex, predicate)
    /\ UNCHANGED <<clusterVars, otherVars>>

ComputeServerIndexRound ==
    /\ route.pc = "loop"
    /\ route.rounds < MaxRounds
    /\ route' = JumpRound(route)
    /\ UNCHANGED <<clusterVars, otherVars>>

FindFirstServerIndexCall ==
    /\ route.pc = "idle"
    /\ \E serverCount \in 0..MaxServerCount :
         \E predicate \in Predicates(serverCount) :
            LET r == FindFirstServerIndex(serverCount, predicate)
            IN  route' = [RouteIdle EXCEPT !.op = "FindFirstServerIndex",
                                           !.pc = "done",
                                           !.serverCount = serverCount,
                                           !.predicate = predicate,
                                           !.serverIndex = r.serverIndex,
                                           !.err = r.err,
                                           !.queried = r.queried]
    /\ UNCHANGED <<clusterVars, otherVars>>

RouteNext ==
    \/ ComputeServerIndexCall
    \/ ComputeServerIndexRound
    \/ FindFirstServerIndexCall

RouteSpec == RouteInit /\ [][RouteNext]_vars

\* the loop of ComputeServerIndex runs on: a call that can iterate does
FairRouteSpec == RouteSpec /\ WF_vars(ComputeServerIndexRound)

---------------------------------------------------------------------------
(* Properties of the routing functions. *)

IsCompute == route.op = "ComputeServerIndex"

AllOperational ==
    \A i \in DOMAIN route.predicate : route.predicate[i] = "operational"

\* C2: with a predicate that reports every server operational,
\* ComputeServerIndex(N, x, predicate) returns x mod N and no error.
C2_AllOperationalIsModulo ==
    (IsCompute /\ AllOperational) =>
        /\ route.pc = "done"
        /\ route.err = Nil
        /\ route.serverIndex = route.input % route.serverCount

C2_Witness ==
    /\ IsCompute /\ AllOperational /\ route.pc = "done"
    /\ route.serverCount >= 2
    /\ route.input > route.serverCount
    /\ route.serverIndex = 1

EvenOperational ==
    \A i \in DOMAIN route.predicate :
        route.predicate[i] = (IF i % 2 = 0 THEN "operational" ELSE "dead")

\* C3: with the predicate "server i is operational iff i is even",
\* ComputeServerIndex returns, without error, an even index in [0, N), and
\* exactly x mod N when x mod N is even.
C3_OddServersDead ==
    (IsCompute /\ EvenOperational) =>
        /\ route.pc = "loop" => route.rounds < MaxRounds
        /\ route.pc = "done" =>
            /\ route.err = Nil
            /\ route.serverIndex \in 0..(route.serverCount - 1)
            /\ route.serverIndex % 2 = 0
            /\ (route.input % route.serverCount) % 2 = 0
                    => route.serverIndex = route.input % route.serverCount

C3_Witness ==
    /\ IsCompute /\ EvenOperational /\ route.pc = "done"
    /\ (route.input % route.serverCount) % 2 = 1
    /\ route.rounds >= 2
    /\ route.serverIndex = 2

HasOperational ==
    \E i \in DOMAIN route.predicate : route.predicate[i] = "operational"

NeverErrors ==
    \A i \in DOMAIN route.predicate : route.predicate[i] # "error"

\* C4: whenever the predicate reports at least one index operational and
\* never errors, ComputeServerIndex terminates: the loop that re-runs the
\* jump-consistent hash with the object index incremented reaches an
\* operational index.
C4_Terminates ==
    [](IsCompute /\ HasOperational /\ NeverErrors => <>(route.pc = "done"))

C4_Witness ==
    /\ IsCompute /\ HasOperational /\ NeverErrors /\ route.pc = "done"
    /\ route.rounds >= 4
    /\ Cardinality({i \in DOMAIN route.predicate :
                        route.predicate[i] = "operational"}) = 1

\* C5: ComputeServerIndex stops at the first candidate for which the
\* predicate answers operational or error: every candidate queried before
\* the last one was dead; an error of predicate(x mod N) is returned with no
\* other index queried; an error of a later candidate is returned; an index
\* returned without error is in [0, N) and was answered operational.
C5_StopsAtFirstAnswer ==
    IsCompute =>
        /\ route.queried[1] = route.input % route.serverCount
        /\ \A k \in 1..(Len(route.queried) - 1) :
                route.predicate[route.queried[k]] = "dead"
        /\ route.predicate[route.input % route.serverCount] = "error" =>
                /\ route.pc = "done"
                /\ route.err = ErrServerUnavailable
                /\ route.queried = <<route.input % route.serverCount>>
        /\ route.predicate[route.queried[Len(route.queried)]] # "dead" =>
                route.pc = "done"
        /\ route.pc = "done" =>
                /\ route.serverIndex = route.queried[Len(route.queried)]
                /\ route.predicate[route.serverIndex] = "error" =>
                        route.err = ErrServerUnavailable
                /\ route.err = Nil =>
                        /\ route.serverIndex \in 0..(route.serverCount - 1)
                        /\ route.predicate[route.serverIndex] = "operational"

C5_Witness ==
    /\ IsCompute /\ route.pc = "done"
    /\ route.err = ErrServerUnavailable
    /\ route.rounds >= 2
    /\ HasOperational

---------------------------------------------------------------------------
(* Storage actions, connections and replies. *)

ServerStates == {"Online", "Offline", "Respread", "RIP"}

ErrInvalidConfig == "ErrInvalidConfig"
ErrDial == "ErrDial"
ErrAction == "ErrAction"

\* what dialing a server and applying an action on the connection can do
DoAtOutcomes == {"ok", ErrDial, ErrAction}

Command(id) == [kind |-> "Command", id |-> id]

\* a pipelined batch of actions, applied on one connection
Commands(actions) == [kind |-> "Commands", actions |-> actions]

\* the reply of the server at serverIndex to the command, executed alone
Reply(serverIndex, command) == [server |-> serverIndex, command |-> command.id]

\* action.Do(conn), on a connection to the server at serverIndex
ActionReply(serverIndex, action) ==
    IF action.kind = "Commands"
    THEN [i \in 1..Len(action.actions) |-> Reply(serverIndex, action.actions[i])]
    ELSE Reply(serverIndex, action)

\* Values(reply, err): the replies of a batch as a slice
Values(r) ==
    IF r.err # Nil THEN [replies |-> <<>>, err |-> r.err]
    ELSE [replies |-> r.reply, err |-> Nil]

---------------------------------------------------------------------------
(* NewUniCluster and NewCluster. *)

NewUniCluster(cfgState, valid) ==
    IF ~valid THEN [cluster |-> NoCluster, err |-> ErrInvalidConfig]
    ELSE IF cfgState = "Online"
    THEN [cluster |-> [kind |-> "UniCluster", servers |-> <<cfgState>>,
                       serverCount |-> 1, availableServerCount |-> 1],
          err |-> Nil]
    ELSE IF cfgState = "RIP"
    THEN [cluster |-> NoCluster, err |-> ErrNoServersAvailable]
    ELSE [cluster |-> NoCluster, err |-> ErrServerStateNotSupported]

\* mutant: every server that is not Online is counted as unavailable
RECURSIVE CountAvailable_NoStateCheck(_, _, _)
CountAvailable_NoStateCheck(cfgServers, i, availableServerCount) ==
    IF i > Len(cfgServers)
    THEN [availableServerCount |-> availableServerCount, err |-> Nil]
    ELSE IF cfgServers[i] = "Online"
    THEN CountAvailable_NoStateCheck(cfgServers, i + 1, availableServerCount)
    ELSE CountAvailable_NoStateCheck(cfgServers, i + 1, availableServerCount - 1)

\* mutant: a RIP server stays counted as available
RECURSIVE CountAvailable_RIPCounted(_, _, _)
CountAvailable_RIPCounted(cfgServers, i, availableServerCount) ==
    IF i > Len(cfgServers)
    THEN [availableServerCount |-> availableServerCount, err |-> Nil]
    ELSE IF cfgServers[i] \in {"Online", "RIP"}
    THEN CountAvailable_RIPCounted(cfgServers, i + 1, availableServerCount)
    ELSE [availableServerCount |-> availableServerCount,
          err |-> ErrServerStateNotSupported]

\* the loop of NewCluster over cfg.Servers, from element i on
RECURSIVE CountAvailable(_, _, _)
CountAvailable(cfgServers, i, availableServerCount) ==
    IF i > Len(cfgServers)
    THEN [availableServerCount |-> availableServerCount, err |-> Nil]
    ELSE IF cfgServers[i] = "Online"
    THEN CountAvailable(cfgServers, i + 1, availableServerCount)
    ELSE IF cfgServers[i] # "RIP"
    THEN [availableServerCount |-> availableServerCount,
          err |-> ErrServerStateNotSupported]
    ELSE CountAvailable(cfgServers, i + 1, availableServerCount - 1)

NewCluster(cfgServers, valid) ==
    IF ~valid THEN [cluster |-> NoCluster, err |-> ErrInvalidConfig]
    ELSE LET serverCount == Len(cfgServers)
             counted == CountAvailable(cfgServers, 1, serverCount)
         IN  IF counted.err # Nil
             THEN [cluster |-> NoCluster, err |-> counted.err]
             ELSE IF counted.availableServerCount = 0
             THEN [cluster |-> NoCluster, err |-> ErrNoServersAvailable]
             ELSE [cluster |-> [kind |-> "Cluster", servers |-> cfgServers,
                                serverCount |-> serverCount,
                                availableServerCount |->
                                    counted.availableServerCount],
                   err |-> Nil]

ServerConfigs == UNION {[1..n -> ServerStates] : n \in 1..MaxServers}

EmptyLog(cl) == [s \in 0..(cl.serverCount - 1) |-> <<>>]

NewUniClusterCall ==
    /\ newCall.fn = "none"
    /\ \E cfgState \in ServerStates, valid \in BOOLEAN :
        LET r == NewUniCluster(cfgState, valid)
        IN  /\ newCall' = [fn |-> "NewUniCluster", cfg |-> <<cfgState>>,
                           valid |-> valid, err |-> r.err]
            /\ cluster' = r.cluster
            /\ doAtLog' = EmptyLog(r.cluster)
    /\ UNCHANGED <<otherVars, route, call, mainPc, servers, worker, chClosed,
                   ctxDone, replies, result>>

NewClusterCall ==
    /\ newCall.fn = "none"
    /\ \E cfgServers \in ServerConfigs, valid \in BOOLEAN :
        LET r == NewCluster(cfgServers, valid)
        IN  /\ newCall' = [fn |-> "NewCluster", cfg |-> cfgServers,
                           valid |-> valid, err |-> r.err]
            /\ cluster' = r.cluster
            /\ doAtLog' = EmptyLog(r.cluster)
    /\ UNCHANGED <<otherVars, route, call, mainPc, servers, worker, chClosed,
                   ctxDone, replies, result>>

---------------------------------------------------------------------------
(* Do and DoFor. *)

\* mutant: a server counts as operational unless it is Offline
serverOperational_NotOffline(cl, index) == cl.servers[index + 1] # "Offline"

\* Cluster.serverOperational
serverOperational(cl, index) == cl.servers[index + 1] = "Online"

\* cluster.serverOperational as a ServerIndexPredicate: it never errors
ClusterPredicate(cl) ==
    [index \in 0..(cl.serverCount - 1) |->
        IF serverOperational(cl, index) THEN "operational" ELSE "dead"]

\* doAt / UniCluster.Do: dial the server, apply the action on the connection
doAt(serverIndex, action, outcome) ==
    IF outcome = "ok"
    THEN [reply |-> ActionReply(serverIndex, action), err |-> Nil]
    ELSE [reply |-> NilReply, err |-> outcome]

Logged(log, serverIndex, action, outcome) ==
    [log EXCEPT ![serverIndex] =
        Append(@, [action |-> action, outcome |-> outcome])]

Actions == {Command(id) : id \in 1..MaxPairs}

Returned(r) ==
    /\ result' = [NoResult EXCEPT !.reply = r.reply, !.err = r.err]
    /\ mainPc' = "returned"

UniClusterDo ==
    /\ mainPc = "idle"
    /\ cluster.kind = "UniCluster"
    /\ \E action \in Actions, outcome \in DoAtOutcomes :
        /\ call' = [NoCall EXCEPT !.op = "Do", !.action = action]
        /\ Returned(doAt(0, action, outcome))
        /\ doAtLog' = Logged(doAtLog, 0, action, outcome)
    /\ UNCHANGED <<otherVars, route, cluster, newCall, servers, worker,
                   chClosed, ctxDone, replies>>

UniClusterDoFor ==
    /\ mainPc = "idle"
    /\ cluster.kind = "UniCluster"
    /\ \E objectIndex \in 0..MaxPairIndex, action \in Actions,
          outcome \in DoAtOutcomes :
        /\ call' = [NoCall EXCEPT !.op = "DoFor", !.objectIndex = objectIndex,
                                  !.action = action]
        /\ Returned(doAt(0, action, outcome))
        /\ doAtLog' = Logged(doAtLog, 0, action, outcome)
    /\ UNCHANGED <<otherVars, route, cluster, newCall, servers, worker,
                   chClosed, ctxDone, replies>>

ClusterDo ==
    /\ mainPc = "idle"
    /\ cluster.kind = "Cluster"
    /\ \E action \in Actions, outcome \in DoAtOutcomes :
        LET found == FindFirstServerIndex(cluster.serverCount,
                                          ClusterPredicate(cluster))
        IN  /\ call' = [NoCall EXCEPT !.op = "Do", !.action = action]
            /\ IF found.err # Nil
               THEN /\ Returned([reply |-> NilReply, err |-> found.err])
                    /\ UNCHANGED doAtLog
               ELSE /\ Returned(doAt(found.serverIndex, action, outcome))
                    /\ doAtLog' = Logged(doAtLog, found.serverIndex, action,
                                         outcome)
    /\ UNCHANGED <<otherVars, route, cluster, newCall, servers, worker,
                   chClosed, ctxDone, replies>>

ClusterDoFor ==
    /\ mainPc = "idle"
    /\ cluster.kind = "Cluster"
    /\ \E objectIndex \in 0..MaxPairIndex, action \in Actions,
          outcome \in DoAtOutcomes :
        LET routed == ComputeServerIndex(cluster.serverCount, objectIndex,
                                         ClusterPredicate(cluster))
        IN  /\ call' = [NoCall EXCEPT !.op = "DoFor",
                                      !.objectIndex = objectIndex,
                                      !.action = action]
            /\ IF routed.pc = "loop"
               THEN /\ mainPc' = "looping"
                    /\ UNCHANGED <<result, doAtLog>>
               ELSE IF routed.err # Nil
               THEN /\ Returned([reply |-> NilReply, err |-> routed.err])
                    /\ UNCHANGED doAtLog
               ELSE /\ Returned(doAt(routed.serverIndex, action, outcome))
                    /\ doAtLog' = Logged(doAtLog, routed.serverIndex, action,
                                         outcome)
    /\ UNCHANGED <<otherVars, route, cluster, newCall, servers, worker,
                   chClosed, ctxDone, replies>>

---------------------------------------------------------------------------
(* DoForAll. *)

\* slice[i], for a Go index i
At(slice, i) == slice[i + 1]

InRange(slice, i) == 0 <= i /\ i < Len(slice)

\* the pairs given to DoForAll: pair i applies its own command, Command(i)
PairsOf(indices) ==
    [i \in 1..Len(indices) |-> [Index |-> indices[i], Action |-> Command(i)]]

PairSlices ==
    {PairsOf(indices) :
        indices \in UNION {[1..n -> 0..MaxPairIndex] : n \in 0..MaxPairs}}

ActionsOf(pairs) == [i \in 1..Len(pairs) |-> pairs[i].Action]

UniClusterDoForAll ==
    /\ mainPc = "idle"
    /\ cluster.kind = "UniCluster"
    /\ \E pairs \in PairSlices, outcome \in DoAtOutcomes :
        /\ call' = [NoCall EXCEPT !.op = "DoForAll", !.pairs = pairs]
        /\ mainPc' = "returned"
        /\ CASE Len(pairs) = 0 ->
                    /\ result' = NoResult
                    /\ UNCHANGED doAtLog
             [] Len(pairs) = 1 ->
                    LET r == doAt(0, At(pairs, 0).Action, outcome)
                    IN  /\ result' =
                            IF r.err # Nil
                            THEN [NoResult EXCEPT !.err = r.err]
                            ELSE [NoResult EXCEPT !.replies = <<r.reply>>]
                        /\ doAtLog' = Logged(doAtLog, 0, At(pairs, 0).Action,
                                             outcome)
             [] OTHER ->
                    LET action == Commands(ActionsOf(pairs))
                        r == Values(doAt(0, action, outcome))
                    IN  /\ result' = [NoResult EXCEPT !.replies = r.replies,
                                                      !.err = r.err]
                        /\ doAtLog' = Logged(doAtLog, 0, action, outcome)
    /\ UNCHANGED <<otherVars, route, cluster, newCall, servers, worker,
                   chClosed, ctxDone, replies>>

\* the pair whose Index the single-pair shortcut of Cluster.DoForAll reads
SinglePairIndexAt == 0
\* the pair whose Action the single-pair shortcut of Cluster.DoForAll reads
SinglePairActionAt == 1

\* mutant: the index and the action are put in front of the slices
Add_Front(m, serverIndex, index, action) ==
    IF serverIndex \in DOMAIN m
    THEN [m EXCEPT ![serverIndex] =
            [Indices |-> <<index>> \o @.Indices,
             Actions |-> <<action>> \o @.Actions]]
    ELSE m @@ (serverIndex :> [Indices |-> <<index>>, Actions |-> <<action>>])

\* IndexActionMap.Add, on the map entry of serverIndex
Add(m, serverIndex, index, action) ==
    IF serverIndex \in DOMAIN m
    THEN [m EXCEPT ![serverIndex] =
            [Indices |-> Append(@.Indices, index),
             Actions |-> Append(@.Actions, action)]]
    ELSE m @@ (serverIndex :> [Indices |-> <<index>>, Actions |-> <<action>>])

\* the loop of DoForAll that sorts all actions by their mapped server index,
\* from the pair at Go index `index` on
RECURSIVE GroupPairs(_, _, _, _)
GroupPairs(cl, pairs, index, m) ==
    IF index >= Len(pairs)
    THEN [servers |-> m, err |-> Nil, looping |-> FALSE]
    ELSE LET pair == At(pairs, index)
             routed == ComputeServerIndex(cl.serverCount, pair.Index,
                                          ClusterPredicate(cl))
         IN  IF routed.pc = "loop"
             THEN [servers |-> m, err |-> Nil, looping |-> TRUE]
             ELSE IF routed.err # Nil
             THEN [servers |-> m, err |-> routed.err, looping |-> FALSE]
             ELSE GroupPairs(cl, pairs, index + 1,
                             Add(m, routed.serverIndex, index, pair.Action))

\* mutant: the position within the batch is taken as the reply index
ReplyIndex_BatchPosition(m, i) == i

\* replyIndex := m.Indices[i], for the Go index i of a reply of the batch
ReplyIndex(m, i) == At(m.Indices, i)

\* the loop that collects all received replies of one server in order
StoreReplies(into, m, batchReplies) ==
    [k \in 1..Len(into) |->
        LET hits == {i \in 0..(Len(batchReplies) - 1) : ReplyIndex(m, i) = k - 1}
        IN  IF hits = {} THEN into[k]
            ELSE At(batchReplies, CHOOSE i \in hits : \A h \in hits : h <= i)]

\* mutant: the replies collected so far are returned along with the error
ErrorReturn_Partial(collected, err, serverIndex) ==
    [NoResult EXCEPT !.replies = collected, !.err = err,
                     !.errServerIndex = serverIndex]

\* return nil, errors.Wrapf(result.Error, "... in serverIndex %d", ...)
ErrorReturn(collected, err, serverIndex) ==
    [NoResult EXCEPT !.err = err, !.errServerIndex = serverIndex]

ClusterDoForAll ==
    /\ mainPc = "idle"
    /\ cluster.kind = "Cluster"
    /\ \E pairs \in PairSlices, outcome \in DoAtOutcomes :
        /\ call' = [NoCall EXCEPT !.op = "DoForAll", !.pairs = pairs]
        /\ CASE Len(pairs) = 0 ->
                    /\ result' = NoResult
                    /\ mainPc' = "returned"
                    /\ UNCHANGED <<servers, worker, replies, doAtLog>>
             [] Len(pairs) = 1 ->
                    \* cluster.DoFor(pairs[0].Index, pairs[1].Action)
                    IF ~InRange(pairs, SinglePairIndexAt)
                            \/ ~InRange(pairs, SinglePairActionAt)
                    THEN /\ mainPc' = "panicked"
                         /\ UNCHANGED <<servers, worker, replies, result,
                                        doAtLog>>
                    ELSE LET objectIndex == At(pairs, SinglePairIndexAt).Index
                             action == At(pairs, SinglePairActionAt).Action
                             routed == ComputeServerIndex(
                                           cluster.serverCount, objectIndex,
                                           ClusterPredicate(cluster))
                             r == doAt(routed.serverIndex, action, outcome)
                         IN  /\ UNCHANGED <<servers, worker, replies>>
                             /\ IF routed.pc = "loop"
                                THEN /\ mainPc' = "looping"
                                     /\ UNCHANGED <<result, doAtLog>>
                                ELSE /\ mainPc' = "returned"
                                     /\ result' =
                                            IF r.err # Nil
                                            THEN [NoResult EXCEPT !.err = r.err]
                                            ELSE [NoResult EXCEPT
                                                    !.replies = <<r.reply>>]
                                     /\ doAtLog' = Logged(doAtLog,
                                            routed.serverIndex, action, outcome)
             [] OTHER ->
                    LET grouped == GroupPairs(cluster, pairs, 0, <<>>)
                        m == grouped.servers
                    IN  IF grouped.looping
                        THEN /\ mainPc' = "looping"
                             /\ UNCHANGED <<servers, worker, replies, result,
                                            doAtLog>>
                        ELSE IF grouped.err # Nil
                        THEN /\ mainPc' = "returned"
                             /\ result' = [NoResult EXCEPT !.err = grouped.err]
                             /\ UNCHANGED <<servers, worker, replies, doAtLog>>
                        ELSE IF Cardinality(DOMAIN m) = 1
                        THEN \* the shortcut for a single server
                             LET serverIndex == CHOOSE s \in DOMAIN m : TRUE
                                 action == Commands(m[serverIndex].Actions)
                                 r == Values(doAt(serverIndex, action, outcome))
                             IN  /\ mainPc' = "returned"
                                 /\ servers' = m
                                 /\ result' = [NoResult EXCEPT
                                                    !.replies = r.replies,
                                                    !.err = r.err]
                                 /\ doAtLog' = Logged(doAtLog, serverIndex,
                                                      action, outcome)
                                 /\ UNCHANGED <<worker, replies>>
                        ELSE \* one goroutine per server, replies collected
                             /\ mainPc' = "collect"
                             /\ servers' = m
                             /\ worker' = [s \in DOMAIN m |->
                                    [pc |-> "run", Replies |-> <<>>,
                                     Error |-> Nil]]
                             /\ replies' = [k \in 1..Len(pairs) |-> NilReply]
                             /\ UNCHANGED <<result, doAtLog>>
    /\ UNCHANGED <<otherVars, route, cluster, newCall, chClosed, ctxDone>>

\* the goroutine of serverIndex applies its batch
WorkerRun(serverIndex) ==
    /\ worker[serverIndex].pc = "run"
    /\ \E outcome \in DoAtOutcomes :
        LET action == Commands(servers[serverIndex].Actions)
            r == Values(doAt(serverIndex, action, outcome))
        IN  /\ worker' = [worker EXCEPT ![serverIndex] =
                            [pc |-> "send", Replies |-> r.replies,
                             Error |-> r.err]]
            /\ doAtLog' = Logged(doAtLog, serverIndex, action, outcome)
    /\ UNCHANGED <<otherVars, route, cluster, newCall, call, mainPc, servers,
                   chClosed, ctxDone, replies, result>>

\* ch <- result meets `for result := range ch`
Receive(serverIndex) ==
    /\ mainPc = "collect"
    /\ worker[serverIndex].pc = "send"
    /\ worker' = [worker EXCEPT ![serverIndex].pc = "sent"]
    /\ IF worker[serverIndex].Error # Nil
       THEN /\ result' = ErrorReturn(replies, worker[serverIndex].Error,
                                     serverIndex)
            /\ mainPc' = "returned"
            /\ ctxDone' = TRUE
            /\ UNCHANGED replies
       ELSE /\ replies' = StoreReplies(replies, servers[serverIndex],
                                       worker[serverIndex].Replies)
            /\ UNCHANGED <<result, mainPc, ctxDone>>
    /\ UNCHANGED <<otherVars, route, cluster, newCall, call, servers,
                   chClosed, doAtLog>>

\* the goroutine of serverIndex leaves its select through <-ctx.Done()
WorkerCancelled(serverIndex) ==
    /\ worker[serverIndex].pc = "send"
    /\ ctxDone
    /\ worker' = [worker EXCEPT ![serverIndex].pc = "cancelled"]
    /\ UNCHANGED <<otherVars, route, cluster, newCall, call, mainPc, servers,
                   chClosed, ctxDone, replies, result, doAtLog>>

\* mutant: wg.Done() is reached only after a send
WorkerExited_SentOnly(serverIndex) == worker[serverIndex].pc = "sent"

WorkerExited(serverIndex) == worker[serverIndex].pc \in {"sent", "cancelled"}

\* wg.Wait() returns and the channel is closed
CloseChannel ==
    /\ DOMAIN worker # {}
    /\ ~chClosed
    /\ \A serverIndex \in DOMAIN worker : WorkerExited(serverIndex)
    /\ chClosed' = TRUE
    /\ UNCHANGED <<otherVars, route, cluster, newCall, call, mainPc, servers,
                   worker, ctxDone, replies, result, doAtLog>>

\* the range over the closed channel ends: all replies are returned
CollectEnd ==
    /\ mainPc = "collect"
    /\ chClosed
    /\ result' = [NoResult EXCEPT !.replies = replies]
    /\ mainPc' = "returned"
    /\ ctxDone' = TRUE
    /\ UNCHANGED <<otherVars, route, cluster, newCall, call, servers, worker,
                   chClosed, replies, doAtLog>>

ClusterInit == route = RouteIdle /\ ClusterIdle /\ OtherIdle

ClusterNext ==
    \/ NewUniClusterCall
    \/ NewClusterCall
    \/ UniClusterDo
    \/ UniClusterDoFor
    \/ UniClusterDoForAll
    \/ ClusterDo
    \/ ClusterDoFor
    \/ ClusterDoForAll
    \/ \E serverIndex \in DOMAIN worker : WorkerRun(serverIndex)
    \/ \E serverIndex \in DOMAIN worker : Receive(serverIndex)
    \/ \E serverIndex \in DOMAIN worker : WorkerCancelled(serverIndex)
    \/ CloseChannel
    \/ CollectEnd

ClusterSpec == ClusterInit /\ [][ClusterNext]_vars

\* the routing functions and the clusters in one specification: a behaviour
\* exercises either the routing functions or a cluster
Init == route = RouteIdle /\ ClusterIdle /\ OtherIdle

Next ==
    \/ newCall.fn = "none" /\ RouteNext
    \/ route.pc = "idle" /\ ClusterNext

Spec == Init /\ [][Next]_vars

---------------------------------------------------------------------------
(* Properties of the static clusters. *)

\* the server an object index routes to in the constructed cluster
TargetServer(objectIndex) ==
    IF cluster.kind = "UniCluster" THEN 0
    ELSE ComputeServerIndex(cluster.serverCount, objectIndex,
                            ClusterPredicate(cluster)).serverIndex

DoForAllReturned == call.op = "DoForAll" /\ mainPc = "returned"

\* C1: a DoForAll call (UniCluster or Cluster) that returns no error returns
\* one reply per pair, and reply i is the reply of pair i's action executed
\* on the server that pair i's index routes to, whatever the grouping per
\* server and the order in which the batches complete.
C1_DoForAllRepliesInOrder ==
    (DoForAllReturned /\ result.err = Nil) =>
        /\ Len(result.replies) = Len(call.pairs)
        /\ \A i \in 1..Len(call.pairs) :
                result.replies[i] =
                    Reply(TargetServer(call.pairs[i].Index), call.pairs[i].Action)

C1_Witness ==
    /\ DoForAllReturned /\ result.err = Nil
    /\ cluster.kind = "Cluster"
    /\ Cardinality(DOMAIN worker) >= 2
    /\ \E s \in DOMAIN servers : servers[s].Indices = <<0, 2>>
    /\ \E s \in DOMAIN servers : servers[s].Indices = <<1>>

\* C6: Cluster.DoForAll called with exactly one pair executes pairs[0].Action
\* on the server pairs[0].Index routes to and returns a one-element reply
\* vector holding that reply (or the error of that one dispatch).
C6_SinglePairDispatch ==
    (cluster.kind = "Cluster" /\ call.op = "DoForAll" /\ Len(call.pairs) = 1) =>
        LET target == TargetServer(call.pairs[1].Index)
        IN  /\ mainPc = "returned"
            /\ Len(doAtLog[target]) = 1
            /\ doAtLog[target][1].action = call.pairs[1].Action
            /\ result.err = Nil =>
                    result.replies = <<Reply(target, call.pairs[1].Action)>>

AnyBatchFailed ==
    \E s \in DOMAIN doAtLog :
        \E k \in 1..Len(doAtLog[s]) : doAtLog[s][k].outcome # "ok"

\* C7: if any per-server batch of a Cluster.DoForAll call fails, the call
\* returns only an error and a nil reply vector; the error is that of the
\* first failed batch result the caller received (no other received result
\* had failed), and replies already collected are not returned.
C7_ErrorOnlyOnFailure ==
    (cluster.kind = "Cluster" /\ DoForAllReturned /\ AnyBatchFailed) =>
        /\ result.err \in {ErrDial, ErrAction}
        /\ result.replies = <<>>
        /\ IF DOMAIN worker = {}
           THEN \E s \in DOMAIN doAtLog :
                    /\ Len(doAtLog[s]) = 1
                    /\ doAtLog[s][1].outcome = result.err
           ELSE /\ result.errServerIndex \in DOMAIN worker
                /\ worker[result.errServerIndex].pc = "sent"
                /\ worker[result.errServerIndex].Error = result.err
                /\ \A s \in DOMAIN worker \ {result.errServerIndex} :
                        worker[s].pc = "sent" => worker[s].Error = Nil

C7_Witness ==
    /\ cluster.kind = "Cluster" /\ DoForAllReturned /\ AnyBatchFailed
    /\ result.err = ErrAction
    /\ \E k \in 1..Len(replies) : replies[k] # NilReply
    /\ \E s \in DOMAIN worker : worker[s].pc = "sent" /\ worker[s].Error = Nil

Unsupported(cfg) == \E i \in 1..Len(cfg) : cfg[i] \notin {"Online", "RIP"}

\* C8: NewCluster fails with ErrServerStateNotSupported if any server has a
\* state other than Online or RIP, fails with ErrNoServersAvailable if every
\* server is RIP, and succeeds otherwise; NewUniCluster fails with
\* ErrNoServersAvailable for RIP, with ErrServerStateNotSupported for any
\* other state that is not Online, and succeeds for Online.
C8_ConstructionValidatesStates ==
    /\ (newCall.fn = "NewCluster" /\ newCall.valid) =>
        /\ Unsupported(newCall.cfg) =>
                newCall.err = ErrServerStateNotSupported /\ cluster = NoCluster
        /\ (\A i \in 1..Len(newCall.cfg) : newCall.cfg[i] = "RIP") =>
                newCall.err = ErrNoServersAvailable /\ cluster = NoCluster
        /\ (~Unsupported(newCall.cfg)
                /\ \E i \in 1..Len(newCall.cfg) : newCall.cfg[i] = "Online") =>
                /\ newCall.err = Nil
                /\ cluster.kind = "Cluster"
                /\ cluster.servers = newCall.cfg
    /\ (newCall.fn = "NewUniCluster" /\ newCall.valid) =>
        /\ newCall.cfg[1] = "RIP" =>
                newCall.err = ErrNoServersAvailable /\ cluster = NoCluster
        /\ newCall.cfg[1] \in {"Offline", "Respread"} =>
                newCall.err = ErrServerStateNotSupported /\ cluster = NoCluster
        /\ newCall.cfg[1] = "Online" =>
                newCall.err = Nil /\ cluster.kind = "UniCluster"

C8_Witness ==
    /\ newCall.fn = "NewCluster" /\ newCall.valid
    /\ newCall.cfg = <<"RIP", "Offline", "RIP">>
    /\ newCall.err = ErrServerStateNotSupported

Dialed == {s \in DOMAIN doAtLog : doAtLog[s] # <<>>}

\* C9: for a constructed Cluster every Do, DoFor and DoForAll dispatch dials
\* only servers whose state is Online; a RIP slot is skipped by the router
\* without an error (the call fails only with the error of a dial or action).
C9_OnlyOnlineDialed ==
    cluster.kind = "Cluster" =>
        /\ \A s \in Dialed : cluster.servers[s + 1] = "Online"
        /\ mainPc # "looping"
        /\ mainPc = "returned" => result.err \in {Nil, ErrDial, ErrAction}

C9_Witness ==
    /\ cluster.kind = "Cluster"
    /\ cluster.servers = <<"Online", "RIP", "Online">>
    /\ call.op = "DoFor" /\ call.objectIndex = 1
    /\ mainPc = "returned" /\ result.err = Nil
    /\ Dialed = {0}

Min(S) == CHOOSE x \in S : \A y \in S : x <= y

\* C10: FindFirstServerIndex returns the smallest index for which the
\* predicate holds, returns the predicate's error as soon as one occurs, and
\* returns (-1, ErrNoServersAvailable) when no index satisfies the predicate;
\* Cluster.Do applies the action on the Online server with the lowest index.
C10_FirstOperationalServer ==
    /\ route.op = "FindFirstServerIndex" =>
        LET answering == {i \in DOMAIN route.predicate :
                                route.predicate[i] # "dead"}
        IN  IF answering = {}
            THEN /\ route.serverIndex = -1
                 /\ route.err = ErrNoServersAvailable
            ELSE /\ route.serverIndex = Min(answering)
                 /\ route.err = IF route.predicate[Min(answering)] = "error"
                                THEN ErrServerUnavailable ELSE Nil
                 /\ route.queried = [k \in 1..(Min(answering) + 1) |-> k - 1]
    /\ (cluster.kind = "Cluster" /\ call.op = "Do") =>
        LET first == Min({s \in 0..(cluster.serverCount - 1) :
                                cluster.servers[s + 1] = "Online"})
        IN  /\ mainPc = "returned"
            /\ Dialed = {first}
            /\ doAtLog[first] = <<[action |-> call.action,
                                   outcome |-> IF result.err = Nil THEN "ok"
                                               ELSE result.err]>>
            /\ result.err = Nil => result.reply = Reply(first, call.action)

C10_Witness ==
    /\ cluster.kind = "Cluster" /\ call.op = "Do"
    /\ cluster.servers = <<"RIP", "RIP", "Online">>
    /\ mainPc = "returned" /\ result.err = Nil
    /\ result.reply.server = 2

---------------------------------------------------------------------------
(* The static stand-in clusters: ErrorCluster and NopCluster. *)

\* the static error an ErrorCluster is made with
ErrStatic == "static error"

\* the ErrorCluster{Error: err} composite literal
ErrorCluster(err) ==
    [kind |-> "ErrorCluster", servers |-> <<>>, serverCount |-> 0,
     availableServerCount |-> 0, Error |-> err]

\* the NopCluster{} composite literal
NopCluster ==
    [kind |-> "NopCluster", servers |-> <<>>, serverCount |-> 1,
     availableServerCount |-> 1]

ErrorClusterLiteral ==
    /\ newCall.fn = "none"
    /\ newCall' = [NoNewCall EXCEPT !.fn = "ErrorCluster"]
    /\ cluster' = ErrorCluster(ErrStatic)
    /\ UNCHANGED <<otherVars, route, call, mainPc, servers, worker, chClosed,
                   ctxDone, replies, result, doAtLog>>

NopClusterLiteral ==
    /\ newCall.fn = "none"
    /\ newCall' = [NoNewCall EXCEPT !.fn = "NopCluster"]
    /\ cluster' = NopCluster
    /\ UNCHANGED <<otherVars, route, call, mainPc, servers, worker, chClosed,
                   ctxDone, replies, result, doAtLog>>

\* ErrorCluster.DoForAll: return nil, cluster.Error
ErrorClusterDoForAll ==
    /\ mainPc = "idle"
    /\ cluster.kind = "ErrorCluster"
    /\ \E pairs \in PairSlices :
        call' = [NoCall EXCEPT !.op = "DoForAll", !.pairs = pairs]
    /\ result' = [NoResult EXCEPT !.err = cluster.Error]
    /\ mainPc' = "returned"
    /\ UNCHANGED <<otherVars, route, cluster, newCall, servers, worker,
                   chClosed, ctxDone, replies, doAtLog>>

\* NopCluster.DoForAll: return nil, nil
NopClusterDoForAll ==
    /\ mainPc = "idle"
    /\ cluster.kind = "NopCluster"
    /\ \E pairs \in PairSlices :
        call' = [NoCall EXCEPT !.op = "DoForAll", !.pairs = pairs]
    /\ result' = NoResult
    /\ mainPc' = "returned"
    /\ UNCHANGED <<otherVars, route, cluster, newCall, servers, worker,
                   chClosed, ctxDone, replies, doAtLog>>

\* the four static StorageCluster variants in one specification
VariantNext ==
    \/ ClusterNext
    \/ ErrorClusterLiteral
    \/ NopClusterLiteral
    \/ ErrorClusterDoForAll
    \/ NopClusterDoForAll

VariantSpec == ClusterInit /\ [][VariantNext]_vars

\* C11: for every StorageCluster variant (UniCluster, Cluster, NopCluster,
\* ErrorCluster) a DoForAll call that returns no error returns exactly one
\* reply per given pair.
C11_OneReplyPerPair ==
    (DoForAllReturned /\ result.err = Nil) =>
        Len(result.replies) = Len(call.pairs)

---------------------------------------------------------------------------
(* The dynamic clusters: PrimaryCluster and TemplateCluster, with their     *)
(* config reloader and its storageClusterWatcher. TemplateCluster exists    *)
(* twice in the sources: as rewritten around storageClusterWatcher, and as  *)
(* the earlier nbd/ardb/storage/cluster.go, whose reloader keeps the        *)
(* watcher in the local variables templateClusterID, templateClusterCh and  *)
(* templateCancel (modelled by the fields of watcher).                      *)

\* the number of cluster-config watchers opened at the config source
MaxWatchers == 2

PrimaryKind == "PrimaryCluster"
TemplateKind == "TemplateCluster"
\* TemplateCluster of nbd/ardb/storage/cluster.go
FileTemplateKind == "TemplateCluster (cluster.go)"

DynKinds == {PrimaryKind, TemplateKind, FileTemplateKind}

ClusterIDs == {"A", "B"}

\* the object indices given to DoFor of a dynamic cluster
ObjectIndices == {0, 1}

\* the key of the vdisk's NBD config: config.Key{ID: vdiskID, Type: KeyVdiskNBD}
KeyVdiskNBD == "KeyVdiskNBD"

ErrWatch == "ErrWatch"
ErrMethodNotSupported == "ErrMethodNotSupported"
ErrClusterNotDefined == "ErrClusterNotDefined"
PanicDivideByZero == "panic: integer divide by zero"
PanicNoPrimary == "panic: primary cluster should exist on a non-error path"

\* the configs the config source delivers; valid is the verdict of
\* cfg.Validate(), which a config without servers does not pass
StorageClusterConfigs ==
    {[Servers |-> <<>>, valid |-> FALSE],
     [Servers |-> <<"Online">>, valid |-> TRUE],
     [Servers |-> <<"Offline">>, valid |-> TRUE],
     [Servers |-> <<"Offline", "Online">>, valid |-> TRUE],
     [Servers |-> <<"Online", "Online">>, valid |-> FALSE]}

\* cfg.Validate()
Validate(cfg) == IF cfg.valid THEN Nil ELSE ErrInvalidConfig

\* config.WatchStorageClusterConfig(ctx, cs, clusterID) when it succeeds: one
\* more watcher at the config source, on a child of the reloader's context
WatchStorageClusterConfig(in, ctx, clusterID) ==
    Append(in, [clusterID |-> clusterID, cancelled |-> ctx = "done",
                pending |-> FALSE])

\* cancel(), for the cancel handle of the inner watcher at position i
Cancel(in, i) == IF i = 0 THEN in ELSE [in EXCEPT ![i].cancelled = TRUE]

\* mutant: a failed opening drops the watcher in use
SetClusterID_DropOnError(scw, in, keys, ctx, clusterID, openOk) ==
    IF scw.clusterID = clusterID
    THEN [watcher |-> scw, inner |-> in, invalidKeys |-> keys,
          exists |-> scw.clusterID # "", err |-> Nil]
    ELSE IF clusterID = ""
    THEN [watcher |-> [scw EXCEPT !.cancel = 0, !.clusterID = ""],
          inner |-> Cancel(in, scw.cancel), invalidKeys |-> keys,
          exists |-> FALSE, err |-> Nil]
    ELSE IF ~openOk
    THEN [watcher |-> NoWatcher, inner |-> Cancel(in, scw.cancel),
          invalidKeys |-> keys \cup {KeyVdiskNBD},
          exists |-> FALSE, err |-> ErrWatch]
    ELSE LET opened == WatchStorageClusterConfig(in, ctx, clusterID)
         IN  [watcher |-> [clusterID |-> clusterID, channel |-> Len(opened),
                           cancel |-> Len(opened)],
              inner |-> Cancel(opened, scw.cancel), invalidKeys |-> keys,
              exists |-> TRUE, err |-> Nil]

\* storageClusterWatcher.SetClusterID: what it leaves of the watcher, of the
\* inner watchers and of the invalid keys, and what it returns
SetClusterID(scw, in, keys, ctx, clusterID, openOk) ==
    IF scw.clusterID = clusterID
    THEN [watcher |-> scw, inner |-> in, invalidKeys |-> keys,
          exists |-> scw.clusterID # "", err |-> Nil]
    ELSE IF clusterID = ""
    THEN [watcher |-> [scw EXCEPT !.cancel = 0, !.clusterID = ""],
          inner |-> Cancel(in, scw.cancel), invalidKeys |-> keys,
          exists |-> FALSE, err |-> Nil]
    ELSE IF ~openOk
    THEN [watcher |-> scw, inner |-> in,
          invalidKeys |-> keys \cup {KeyVdiskNBD},
          exists |-> FALSE, err |-> ErrWatch]
    ELSE LET opened == WatchStorageClusterConfig(in, ctx, clusterID)
         IN  [watcher |-> [clusterID |-> clusterID, channel |-> Len(opened),
                           cancel |-> Len(opened)],
              inner |-> Cancel(opened, scw.cancel), invalidKeys |-> keys,
              exists |-> TRUE, err |-> Nil]

\* storageClusterWatcher.Defined
Defined(scw) == scw.clusterID # ""

\* PrimaryCluster.updatePrimaryStorageConfig: the config is taken as it comes
updatePrimaryStorageConfig(cl, cfg) ==
    [cluster |-> [cl EXCEPT !.servers = cfg.Servers,
                            !.serverCount = Len(cfg.Servers)],
     err |-> Nil]

\* TemplateCluster.updateStorageConfig: the config is taken as it comes
updateStorageConfig(cl, cfg) ==
    [cluster |-> [cl EXCEPT !.servers = cfg.Servers,
                            !.serverCount = Len(cfg.Servers)],
     err |-> Nil]

\* TemplateCluster.updateStorageConfig of cluster.go: validated first
fileUpdateStorageConfig(cl, cfg) ==
    IF Validate(cfg) # Nil
    THEN [cluster |-> cl, err |-> Validate(cfg)]
    ELSE [cluster |-> [cl EXCEPT !.servers = cfg.Servers,
                                 !.serverCount = Len(cfg.Servers)],
          err |-> Nil]

\* the update function of each kind of cluster
UpdateConfig(cl, cfg) ==
    CASE cl.kind = PrimaryKind -> updatePrimaryStorageConfig(cl, cfg)
      [] cl.kind = TemplateKind -> updateStorageConfig(cl, cfg)
      [] cl.kind = FileTemplateKind -> fileUpdateStorageConfig(cl, cfg)

\* the first config of the inner watcher at position i, received in place
Delivered(in, i) == in

\* what a constructor leaves when it fails: no cluster, and Close was called
Failed(err, keys) ==
    [err |-> err, cluster |-> NoDyn, watcher |-> NoWatcher, inner |-> <<>>,
     invalidKeys |-> keys]

\* PrimaryCluster.spawnConfigReloader up to the spawning of the goroutine
PrimarySpawn(watchOk, clusterID, openOk, cfg) ==
    LET set == SetClusterID(NoWatcher, <<>>, {}, "live", clusterID, openOk)
        new == [kind |-> PrimaryKind, servers |-> <<>>, serverCount |-> 0]
    IN  IF ~watchOk THEN Failed(ErrWatch, {})
        ELSE IF set.err # Nil THEN Failed(set.err, set.invalidKeys)
        ELSE IF ~set.exists THEN Failed(PanicNoPrimary, {})
        ELSE [err |-> Nil,
              cluster |-> updatePrimaryStorageConfig(new, cfg).cluster,
              watcher |-> set.watcher, inner |-> Delivered(set.inner, 1),
              invalidKeys |-> set.invalidKeys]

\* TemplateCluster.spawnConfigReloader up to the spawning of the goroutine
TemplateSpawn(watchOk, clusterID, openOk, cfg) ==
    LET set == SetClusterID(NoWatcher, <<>>, {}, "live", clusterID, openOk)
        new == [kind |-> TemplateKind, servers |-> <<>>, serverCount |-> 0]
    IN  IF ~watchOk THEN Failed(ErrWatch, {})
        ELSE IF set.err # Nil THEN Failed(set.err, set.invalidKeys)
        ELSE IF ~set.exists
        THEN [err |-> Nil, cluster |-> new, watcher |-> set.watcher,
              inner |-> set.inner, invalidKeys |-> set.invalidKeys]
        ELSE [err |-> Nil,
              cluster |-> updateStorageConfig(new, cfg).cluster,
              watcher |-> set.watcher, inner |-> Delivered(set.inner, 1),
              invalidKeys |-> set.invalidKeys]

\* TemplateCluster.spawnConfigReloader of cluster.go up to the goroutine:
\* templateCtx is made in any case, the watcher on it only for an ID
FileTemplateSpawn(watchOk, clusterID, openOk, cfg) ==
    LET new == [kind |-> FileTemplateKind, servers |-> <<>>, serverCount |-> 0]
        templateCtx == WatchStorageClusterConfig(<<>>, "live", clusterID)
        updated == fileUpdateStorageConfig(new, cfg)
    IN  IF ~watchOk THEN Failed(ErrWatch, {})
        ELSE IF clusterID = ""
        THEN [err |-> Nil, cluster |-> new,
              watcher |-> [clusterID |-> "", channel |-> 0, cancel |-> 1],
              inner |-> templateCtx, invalidKeys |-> {}]
        ELSE IF ~openOk THEN Failed(ErrWatch, {})
        ELSE IF updated.err # Nil THEN Failed(updated.err, {})
        ELSE [err |-> Nil, cluster |-> updated.cluster,
              watcher |-> [clusterID |-> clusterID, channel |-> 1,
                           cancel |-> 1],
              inner |-> Delivered(templateCtx, 1), invalidKeys |-> {}]

\* NewPrimaryCluster / NewTemplateCluster: on an error Close is called and no
\* cluster is returned
Constructed(r) ==
    /\ dyn' = r.cluster
    /\ watcher' = r.watcher
    /\ inner' = r.inner
    /\ invalidKeys' = r.invalidKeys
    /\ reloader' = [NoReloader EXCEPT
                        !.pc = IF r.err = Nil THEN "select" ELSE "none"]
    /\ dynCtx' = IF r.err = Nil THEN "live" ELSE "done"
    /\ UNCHANGED <<staticVars, dynCall>>

NewPrimaryCluster ==
    /\ dyn.kind = "none"
    /\ dynCtx = "live"
    /\ \E watchOk, openOk \in BOOLEAN, clusterID \in ClusterIDs \cup {""},
          cfg \in StorageClusterConfigs :
        Constructed(PrimarySpawn(watchOk, clusterID, openOk, cfg))

NewTemplateCluster ==
    /\ dyn.kind = "none"
    /\ dynCtx = "live"
    /\ \E watchOk, openOk \in BOOLEAN, clusterID \in ClusterIDs \cup {""},
          cfg \in StorageClusterConfigs :
        Constructed(TemplateSpawn(watchOk, clusterID, openOk, cfg))

FileNewTemplateCluster ==
    /\ dyn.kind = "none"
    /\ dynCtx = "live"
    /\ \E watchOk, openOk \in BOOLEAN, clusterID \in ClusterIDs \cup {""},
          cfg \in StorageClusterConfigs :
        Constructed(FileTemplateSpawn(watchOk, clusterID, openOk, cfg))

\* the reference-update case of the reloader of cluster.go: templateClusterID
\* is assigned only when the reference becomes empty
FileRefUpdate(scw, in, ctx, clusterID, openOk) ==
    IF clusterID = scw.clusterID
    THEN [watcher |-> scw, inner |-> in, err |-> Nil, opened |-> FALSE]
    ELSE IF clusterID = ""
    THEN [watcher |-> [scw EXCEPT !.clusterID = "", !.channel = 0],
          inner |-> Cancel(in, scw.cancel), err |-> Nil, opened |-> FALSE]
    ELSE IF ~openOk
    THEN [watcher |-> scw, inner |-> in, err |-> ErrWatch, opened |-> FALSE]
    ELSE LET watching == WatchStorageClusterConfig(in, ctx, clusterID)
         IN  [watcher |-> [scw EXCEPT !.channel = Len(watching),
                                      !.cancel = Len(watching)],
              inner |-> Cancel(watching, scw.cancel), err |-> Nil,
              opened |-> TRUE]

\* a panic ends the process: nothing runs after it
Running == dynCall.pc # "panicked"

\* mutant: the writer does not wait for the readers
LockFree_NoLock == TRUE

\* no Do / DoFor holds the read lock of the cluster
LockFree == dynCall.pc \notin {"locked", "looping"}

\* the reloader is in its select
Selecting == Running /\ reloader.pc = "select"

\* a reference update names clusterID: whether handling it opens a watcher
Opens(clusterID) ==
    /\ clusterID # ""
    /\ clusterID # watcher.clusterID

\* case vdiskNBDConfig, ok = <-vdiskNBDRefCh of PrimaryCluster's reloader: the
\* boolean of SetClusterID is dropped, an error is logged
PrimaryRefUpdateOf(clusterID, openOk) ==
    /\ Selecting
    /\ dyn.kind = PrimaryKind
    /\ LET set == SetClusterID(watcher, inner, invalidKeys, dynCtx,
                               clusterID, openOk)
       IN  /\ Opens(clusterID) /\ openOk => Len(inner) < MaxWatchers
           /\ watcher' = set.watcher
           /\ inner' = set.inner
           /\ invalidKeys' = set.invalidKeys
    /\ UNCHANGED <<staticVars, dyn, reloader, dynCtx, dynCall>>

PrimaryRefUpdate ==
    \E clusterID \in ClusterIDs \cup {""}, openOk \in BOOLEAN :
        PrimaryRefUpdateOf(clusterID, openOk)

\* the same case of TemplateCluster's reloader: when a defined cluster is no
\* longer referenced, the servers are to be deleted next
TemplateRefUpdateOf(clusterID, openOk) ==
    /\ Selecting
    /\ dyn.kind = TemplateKind
    /\ LET clusterWasDefined == Defined(watcher)
           set == SetClusterID(watcher, inner, invalidKeys, dynCtx,
                               clusterID, openOk)
       IN  /\ Opens(clusterID) /\ openOk => Len(inner) < MaxWatchers
           /\ watcher' = set.watcher
           /\ inner' = set.inner
           /\ invalidKeys' = set.invalidKeys
           /\ reloader' =
                IF set.err = Nil /\ clusterWasDefined /\ ~set.exists
                THEN [reloader EXCEPT !.pc = "detach"]
                ELSE reloader
    /\ UNCHANGED <<staticVars, dyn, dynCtx, dynCall>>

TemplateRefUpdate ==
    \E clusterID \in ClusterIDs \cup {""}, openOk \in BOOLEAN :
        TemplateRefUpdateOf(clusterID, openOk)

\* the same case of the reloader of cluster.go
FileTemplateRefUpdateOf(clusterID, openOk) ==
    /\ Selecting
    /\ dyn.kind = FileTemplateKind
    /\ LET r == FileRefUpdate(watcher, inner, dynCtx, clusterID, openOk)
       IN  /\ Opens(clusterID) /\ openOk => Len(inner) < MaxWatchers
           /\ watcher' = r.watcher
           /\ inner' = r.inner
    /\ UNCHANGED <<staticVars, dyn, reloader, dynCtx, invalidKeys, dynCall>>

FileTemplateRefUpdate ==
    \E clusterID \in ClusterIDs \cup {""}, openOk \in BOOLEAN :
        FileTemplateRefUpdateOf(clusterID, openOk)

\* tsc.servers, tsc.serverCount = nil, 0 under the write lock
TemplateDetach ==
    /\ Running
    /\ reloader.pc = "detach"
    /\ LockFree
    /\ dyn' = [dyn EXCEPT !.servers = <<>>, !.serverCount = 0]
    /\ reloader' = [reloader EXCEPT !.pc = "select"]
    /\ UNCHANGED <<staticVars, watcher, inner, dynCtx, invalidKeys, dynCall>>

\* case cfg = <-watcher.Receive(): the reloader takes the config that the
\* channel of the watcher offers (whichever config the source sent)
ReloaderReceive ==
    /\ Selecting
    /\ watcher.channel # 0
    /\ inner[watcher.channel].pending
    /\ \E cfg \in StorageClusterConfigs :
        reloader' = [reloader EXCEPT !.pc = "update", !.cfg = cfg]
    /\ inner' = [inner EXCEPT ![watcher.channel].pending = FALSE]
    /\ UNCHANGED <<staticVars, dyn, watcher, dynCtx, invalidKeys, dynCall>>

\* the update function applied to the received config; an error is logged
ReloaderUpdate ==
    /\ Running
    /\ reloader.pc = "update"
    /\ LET updated == UpdateConfig(dyn, reloader.cfg)
       IN  /\ updated.err = Nil => LockFree
           /\ dyn' = updated.cluster
    /\ reloader' = [NoReloader EXCEPT !.pc = "select"]
    /\ UNCHANGED <<staticVars, watcher, inner, dynCtx, invalidKeys, dynCall>>

\* case <-ctx.Done(): return
ReloaderExit ==
    /\ Selecting
    /\ dynCtx = "done"
    /\ reloader' = [reloader EXCEPT !.pc = "exited"]
    /\ UNCHANGED <<staticVars, dyn, watcher, inner, dynCtx, invalidKeys,
                   dynCall>>

\* the config source: a cluster-config watcher that is not cancelled offers
\* its next config on its channel
WatcherSend ==
    /\ Running
    /\ \E i \in DOMAIN inner :
        /\ inner[i].clusterID # ""
        /\ ~inner[i].cancelled
        /\ ~inner[i].pending
        /\ inner' = [inner EXCEPT ![i].pending = TRUE]
    /\ UNCHANGED <<staticVars, dyn, watcher, reloader, dynCtx, invalidKeys,
                   dynCall>>

\* PrimaryCluster.Close / TemplateCluster.Close: cancel() ends the reloader's
\* context and with it the context of every inner watcher
DynClose ==
    /\ Running
    /\ dyn.kind # "none"
    /\ dynCtx = "live"
    /\ dynCtx' = "done"
    /\ inner' = [i \in DOMAIN inner |-> [inner[i] EXCEPT !.cancelled = TRUE]]
    /\ UNCHANGED <<staticVars, dyn, watcher, reloader, invalidKeys, dynCall>>

\* serverIsOnline as a ServerIndexPredicate: it never errors
serverIsOnline(cl) ==
    [index \in 0..(cl.serverCount - 1) |->
        IF cl.servers[index + 1] = "Online" THEN "operational" ELSE "dead"]

Called(op, objectIndex) ==
    [NoDynCall EXCEPT !.op = op, !.objectIndex = objectIndex]

\* PrimaryCluster.Do up to doAt (and TemplateCluster.Do of cluster.go up to
\* the dial): the read lock is taken, the first online server is looked up
PrimaryDo(cl) ==
    LET found == FindFirstServerIndex(cl.serverCount, serverIsOnline(cl))
    IN  IF found.err # Nil
        THEN [Called("Do", 0) EXCEPT !.pc = "returned", !.err = found.err]
        ELSE [Called("Do", 0) EXCEPT !.pc = "locked",
                                     !.serverIndex = found.serverIndex]

\* TemplateCluster.Do: return nil, ErrMethodNotSupported
TemplateDo(cl) ==
    [Called("Do", 0) EXCEPT !.pc = "returned", !.err = ErrMethodNotSupported]

\* PrimaryCluster.DoFor up to doAt (and TemplateCluster.DoFor of cluster.go up
\* to the dial): objectIndex % serverCount panics for no servers, and the
\* search does not return when no server is online
PrimaryDoFor(cl, objectIndex) ==
    IF cl.serverCount = 0
    THEN [Called("DoFor", objectIndex) EXCEPT !.pc = "panicked",
                                              !.err = PanicDivideByZero]
    ELSE LET routed == ComputeServerIndex(cl.serverCount, objectIndex,
                                          serverIsOnline(cl))
         IN  IF routed.pc = "loop"
             THEN [Called("DoFor", objectIndex) EXCEPT !.pc = "looping"]
             ELSE IF routed.err # Nil
             THEN [Called("DoFor", objectIndex) EXCEPT !.pc = "returned",
                                                       !.err = routed.err]
             ELSE [Called("DoFor", objectIndex) EXCEPT
                        !.pc = "locked", !.serverIndex = routed.serverIndex]

\* TemplateCluster.DoFor up to the dial
TemplateDoFor(cl, objectIndex) ==
    IF cl.serverCount = 0
    THEN [Called("DoFor", objectIndex) EXCEPT !.pc = "returned",
                                              !.err = ErrClusterNotDefined]
    ELSE PrimaryDoFor(cl, objectIndex)

\* mutant: a failed dial or action marks the server offline
ServersAfterDoAt_MarkOffline(cl, serverIndex, outcome) ==
    IF outcome = "ok" THEN cl
    ELSE [cl EXCEPT !.servers[serverIndex + 1] = "Offline"]

\* what PrimaryCluster.doAt (and the tail of TemplateCluster.DoFor) leaves of
\* the cluster: it only reads pc.servers[serverIndex]
ServersAfterDoAt(cl, serverIndex, outcome) == cl

DynDo ==
    /\ Running
    /\ dyn.kind # "none"
    /\ dynCall.pc \in {"idle", "returned"}
    /\ dynCall' = IF dyn.kind = TemplateKind THEN TemplateDo(dyn)
                  ELSE PrimaryDo(dyn)
    /\ UNCHANGED <<staticVars, dyn, watcher, inner, reloader, dynCtx,
                   invalidKeys>>

DynDoFor ==
    /\ Running
    /\ dyn.kind # "none"
    /\ dynCall.pc \in {"idle", "returned"}
    /\ \E objectIndex \in ObjectIndices :
        dynCall' = IF dyn.kind = TemplateKind
                   THEN TemplateDoFor(dyn, objectIndex)
                   ELSE PrimaryDoFor(dyn, objectIndex)
    /\ UNCHANGED <<staticVars, dyn, watcher, inner, reloader, dynCtx,
                   invalidKeys>>

\* the dial and the action on the routed server, the broadcast on an error,
\* the deferred RUnlock
DynDoAt ==
    /\ dynCall.pc = "locked"
    /\ \E outcome \in DoAtOutcomes :
        LET r == doAt(dynCall.serverIndex, Command(1), outcome)
        IN  /\ dynCall' = [dynCall EXCEPT !.pc = "returned",
                                          !.reply = r.reply, !.err = r.err,
                                          !.dialed = TRUE,
                                          !.broadcast = r.err # Nil]
            /\ dyn' = ServersAfterDoAt(dyn, dynCall.serverIndex, outcome)
    /\ UNCHANGED <<staticVars, watcher, inner, reloader, dynCtx, invalidKeys>>

DynInit == route = RouteIdle /\ ClusterIdle /\ OtherIdle

DynNext ==
    \/ NewPrimaryCluster
    \/ NewTemplateCluster
    \/ FileNewTemplateCluster
    \/ PrimaryRefUpdate
    \/ TemplateRefUpdate
    \/ FileTemplateRefUpdate
    \/ TemplateDetach
    \/ ReloaderReceive
    \/ ReloaderUpdate
    \/ ReloaderExit
    \/ WatcherSend
    \/ DynClose
    \/ DynDo
    \/ DynDoFor
    \/ DynDoAt

DynSpec == DynInit /\ [][DynNext]_vars

---------------------------------------------------------------------------
(* Properties of the dynamic clusters. *)

TemplateKinds == {TemplateKind, FileTemplateKind}

\* a step in which a Do / DoFor call is made
CallStarts(op) ==
    /\ dynCall.pc \in {"idle", "returned"}
    /\ dynCall' # dynCall
    /\ dynCall'.op = op

\* C12: TemplateCluster.Do always fails with ErrMethodNotSupported and dials
\* no server, whatever the state of the cluster.
C12_TemplateDoNotSupported ==
    (dyn.kind \in TemplateKinds /\ dynCall.op = "Do") =>
        /\ dynCall.pc = "returned"
        /\ dynCall.err = ErrMethodNotSupported
        /\ ~dynCall.dialed

\* C13: TemplateCluster.DoFor called while the cluster has zero servers
\* returns ErrClusterNotDefined, for every object index, without routing and
\* without dialing.
C13_UndefinedTemplateDoFor ==
    [][(CallStarts("DoFor") /\ dyn.kind \in TemplateKinds
            /\ dyn.serverCount = 0) =>
        /\ dynCall'.pc = "returned"
        /\ dynCall'.err = ErrClusterNotDefined
        /\ dynCall'.serverIndex = -1
        /\ ~dynCall'.dialed]_vars

\* C14: once the reloader of a PrimaryCluster or TemplateCluster has handled
\* a reference update with an empty cluster ID, every inner watcher is
\* cancelled and the cluster has no servers left (serverCount = 0).
C14_EmptyReferenceDetaches ==
    (dyn.kind \in {PrimaryKind, TemplateKind}
            /\ reloader.pc \in {"select", "exited"} /\ ~Defined(watcher)) =>
        /\ \A i \in DOMAIN inner : inner[i].cancelled
        /\ dyn.serverCount = 0
        /\ dyn.servers = <<>>

\* the reloader handles a reference update naming clusterID, a cluster other
\* than the watched one, and the opening of its watcher fails
OpeningFails(clusterID) ==
    /\ Opens(clusterID)
    /\ \/ PrimaryRefUpdateOf(clusterID, FALSE)
       \/ TemplateRefUpdateOf(clusterID, FALSE)

\* C15: when the reloader of a PrimaryCluster or TemplateCluster handles a
\* reference to a new cluster ID and the opening of that watcher fails, the
\* vdisk's NBD key is marked invalid and nothing else changes: the watcher's
\* cluster ID, channel and cancel handle, the inner watchers (the one in use
\* is not cancelled) and the cluster's servers and serverCount stay as they
\* were, and the reloader goes on selecting.
C15_FailedOpeningKeepsConfig ==
    [][\A clusterID \in ClusterIDs :
        OpeningFails(clusterID) =>
            /\ KeyVdiskNBD \in invalidKeys'
            /\ watcher' = watcher
            /\ inner' = inner
            /\ dyn' = dyn
            /\ reloader' = reloader]_vars

C15_Witness ==
    /\ dyn.kind = TemplateKind
    /\ KeyVdiskNBD \in invalidKeys
    /\ watcher = [clusterID |-> "A", channel |-> 1, cancel |-> 1]
    /\ Len(inner) = 1 /\ ~inner[1].cancelled /\ inner[1].pending
    /\ dyn.servers = <<"Offline", "Online">>
    /\ reloader.pc = "select"

\* a step in which the reloader applies the config it received
UpdateApplied == reloader.pc = "update" /\ reloader'.pc = "select"

\* C16: a hot-reloaded cluster config that fails validation is not applied:
\* the cluster keeps the servers and serverCount it had.
C16_ErroneousConfigNotApplied ==
    [][(UpdateApplied /\ Validate(reloader.cfg) # Nil) =>
        /\ dyn'.servers = dyn.servers
        /\ dyn'.serverCount = dyn.serverCount]_vars

\* C17: no step of a Do or DoFor call on a dynamic cluster, failed or not,
\* changes the cluster's server list, server states or serverCount; a failed
\* dial or action is broadcast and returned as the error with a nil reply;
\* the servers change only when the reloader applies what the config source
\* sent (or at construction).
C17_CallsLeaveServersAlone ==
    [][/\ dynCall' # dynCall => dyn' = dyn
       /\ (dynCall.pc = "locked" /\ dynCall'.err # Nil) =>
            /\ dynCall'.pc = "returned"
            /\ dynCall'.broadcast
            /\ dynCall'.reply = NilReply
       /\ dyn' # dyn =>
            \/ dyn.kind = "none"
            \/ reloader.pc \in {"update", "detach"} /\ reloader'.pc = "select"
      ]_vars

C17_Witness ==
    /\ dyn.kind = PrimaryKind
    /\ dyn.servers = <<"Offline", "Online">>
    /\ dynCall.op = "DoFor" /\ dynCall.pc = "returned"
    /\ dynCall.serverIndex = 1
    /\ dynCall.err = ErrDial /\ dynCall.broadcast

\* the scheduling of the goroutines: a select whose ctx.Done() case is ready
\* again and again takes it in the end, a pending Lock of sync.RWMutex is not
\* starved by new readers, and a dial returns
FairDynSpec ==
    /\ DynSpec
    /\ SF_vars(ReloaderExit)
    /\ SF_vars(ReloaderUpdate)
    /\ SF_vars(TemplateDetach)
    /\ WF_vars(DynDoAt)

\* Close was called on the cluster
Closed == dyn.kind # "none" /\ dynCtx = "done"

\* C18: after Close on a dynamic cluster every inner cluster-config watcher
\* is cancelled and the reloader goroutine eventually exits (unless a panic
\* ended the process); once it has exited the cluster's servers are not
\* changed any more.
C18_CloseStopsReloader ==
    /\ [](Closed => \A i \in DOMAIN inner : inner[i].cancelled)
    /\ [](Closed => <>(reloader.pc = "exited" \/ ~Running))
    /\ [][reloader.pc = "exited" =>
            reloader'.pc = "exited" /\ dyn' = dyn]_vars

----------------------------------------------------------------------------
\* The LBA shard (package lba)

\* how many different non-zero hashes are tried
MaxHashes == 2

NumberOfRecordsPerLBAShard == 128

HashSize == 32

BytesPerShard == NumberOfRecordsPerLBAShard * HashSize

errNilShardWrite == "shard is nil, and cannot be written"

ErrRawShardTooSmall == "raw shard is too small, expected 4096 bytes"

\* the error of an io.Writer that fails
ErrWriter == "write failed"

\* a nil Hash (a nil byte slice)
NilHash == <<>>

\* a new hash: HashSize zero bytes
NewHash == [k \in 1..HashSize |-> 0]

\* the hash that stands for "no block": all bytes zero, and not a nil slice
nilHash == NewHash

\* byte-wise equality of two hashes
Equals(h, other) == h = other

\* a hash of a block: no all-zero content
HashOf(b) == [k \in 1..HashSize |-> (b + k) % 256]

ContentHashes == {HashOf(b) : b \in 1..MaxHashes}

\* the hashes a caller hands to Set
Hashes == {NilHash, nilHash} \cup ContentHashes

\* the slots that are used: the first and the last of the shard
HashIndices == {0, NumberOfRecordsPerLBAShard - 1}

\* copy(dst, src[off:])
copy(dst, src, off) ==
    [k \in 1..Len(dst) |-> IF off + k <= Len(src) THEN src[off + k] ELSE dst[k]]

newShard == [hashes |-> [i \in 1..NumberOfRecordsPerLBAShard |-> NilHash],
             dirty |-> FALSE]

\* mutant: a buffer one byte short is taken
shardFromBytes_ShortByOne(bytes) ==
    IF Len(bytes) < BytesPerShard - 1
    THEN [shard |-> NoShard, err |-> ErrRawShardTooSmall]
    ELSE [shard |->
            [newShard EXCEPT !.hashes =
                [i \in 1..NumberOfRecordsPerLBAShard |->
                    LET h == copy(NewHash, bytes, (i - 1) * HashSize)
                    IN  IF ~Equals(h, nilHash) THEN h ELSE NilHash]],
          err |-> Nil]

shardFromBytes(bytes) ==
    IF Len(bytes) < BytesPerShard
    THEN [shard |-> NoShard, err |-> ErrRawShardTooSmall]
    ELSE [shard |->
            [newShard EXCEPT !.hashes =
                [i \in 1..NumberOfRecordsPerLBAShard |->
                    LET h == copy(NewHash, bytes, (i - 1) * HashSize)
                    IN  IF ~Equals(h, nilHash) THEN h ELSE NilHash]],
          err |-> Nil]

Dirty(s) == s.dirty

UnsetDirty(s) == [s EXCEPT !.dirty = FALSE]

\* mutant: a Set that stores the value the slot already has leaves the flag
Set_DirtyOnChange(s, hashIndex, hash) ==
    [s EXCEPT !.hashes[hashIndex + 1] = hash,
              !.dirty = s.dirty \/ s.hashes[hashIndex + 1] # hash]

Set(s, hashIndex, hash) ==
    [s EXCEPT !.hashes[hashIndex + 1] = hash, !.dirty = TRUE]

Get(s, hashIndex) == s.hashes[hashIndex + 1]

\* LBA.Delete of a block whose slot is hashIndex
Delete(s, hashIndex) == Set(s, hashIndex, nilHash)

\* the first slot that is not a nil Hash, NumberOfRecordsPerLBAShard if none
FirstNonNil(s) ==
    IF \A i \in 1..NumberOfRecordsPerLBAShard : s.hashes[i] = NilHash
    THEN NumberOfRecordsPerLBAShard
    ELSE (CHOOSE i \in 1..NumberOfRecordsPerLBAShard :
            /\ s.hashes[i] # NilHash
            /\ \A j \in 1..(i - 1) : s.hashes[j] = NilHash) - 1

\* the bytes of the first n hashes that Write hands to the writer
Written(s, n) ==
    [k \in 1..(n * HashSize) |->
        LET h == s.hashes[((k - 1) \div HashSize) + 1]
        IN  IF h = NilHash THEN nilHash[((k - 1) % HashSize) + 1]
            ELSE h[((k - 1) % HashSize) + 1]]

\* okWrites: how many calls of w.Write succeed before the writer fails
Write(s, okWrites) ==
    IF FirstNonNil(s) = NumberOfRecordsPerLBAShard
    THEN [err |-> errNilShardWrite, written |-> <<>>]
    ELSE IF okWrites < NumberOfRecordsPerLBAShard
    THEN [err |-> ErrWriter, written |-> Written(s, okWrites)]
    ELSE [err |-> Nil, written |-> Written(s, NumberOfRecordsPerLBAShard)]

\* a raw shard of the given length, zero but for hash h in slot hashIndex
Raw(length, hashIndex, h) ==
    [k \in 1..length |->
        IF (k - 1) \div HashSize = hashIndex THEN h[((k - 1) % HashSize) + 1]
        ELSE 0]

RawLengths == {0, BytesPerShard - 1, BytesPerShard, BytesPerShard + 1}

RawShards ==
    {Raw(length, hashIndex, h) : length \in RawLengths,
                                 hashIndex \in HashIndices,
                                 h \in {nilHash} \cup ContentHashes}

\* the writers: failing at once, after one hash, or never
Writers == {0, 1, NumberOfRecordsPerLBAShard}

ShardOp(op, hashIndex, hash) ==
    [NoShardOp EXCEPT !.op = op, !.hashIndex = hashIndex, !.hash = hash]

NewShardCall ==
    /\ shard = NoShard
    /\ shard' = newShard
    /\ shardOp' = ShardOp("newShard", 0, NilHash)
    /\ UNCHANGED <<route, clusterVars, iterVars, factoryVars,
                   dynVars, backupVars>>

\* a shard is loaded: from some raw bytes, or from what Write last emitted
ShardFromBytesCall ==
    \E bytes \in IF shard = NoShard THEN RawShards
                 ELSE IF shardOp.op = "Write" THEN {shardOp.written}
                 ELSE {} :
        /\ shard' = shardFromBytes(bytes).shard
        /\ shardOp' = [ShardOp("shardFromBytes", 0, NilHash) EXCEPT
                          !.raw = bytes, !.err = shardFromBytes(bytes).err]
        /\ UNCHANGED <<route, clusterVars, iterVars, factoryVars,
                   dynVars, backupVars>>

UnsetDirtyCall ==
    /\ shard # NoShard
    /\ shard' = UnsetDirty(shard)
    /\ shardOp' = ShardOp("UnsetDirty", 0, NilHash)
    /\ UNCHANGED <<route, clusterVars, iterVars, factoryVars,
                   dynVars, backupVars>>

SetCall ==
    \E hashIndex \in HashIndices, hash \in Hashes :
        /\ shard # NoShard
        /\ shard' = Set(shard, hashIndex, hash)
        /\ shardOp' = ShardOp("Set", hashIndex, hash)
        /\ UNCHANGED <<route, clusterVars, iterVars, factoryVars,
                   dynVars, backupVars>>

DeleteCall ==
    \E hashIndex \in HashIndices :
        /\ shard # NoShard
        /\ shard' = Delete(shard, hashIndex)
        /\ shardOp' = ShardOp("Delete", hashIndex, NilHash)
        /\ UNCHANGED <<route, clusterVars, iterVars, factoryVars,
                   dynVars, backupVars>>

GetCall ==
    \E hashIndex \in HashIndices :
        /\ shard # NoShard
        /\ shardOp' = ShardOp("Get", hashIndex, Get(shard, hashIndex))
        /\ UNCHANGED <<shard, route, clusterVars, iterVars, factoryVars,
                   dynVars, backupVars>>

WriteCall ==
    \E okWrites \in Writers :
        /\ shard # NoShard
        /\ shardOp' = [ShardOp("Write", 0, NilHash) EXCEPT
                          !.err = Write(shard, okWrites).err,
                          !.written = Write(shard, okWrites).written]
        /\ UNCHANGED <<shard, route, clusterVars, iterVars, factoryVars,
                   dynVars, backupVars>>

ShardInit == route = RouteIdle /\ ClusterIdle /\ OtherIdle

ShardNext ==
    \/ NewShardCall
    \/ ShardFromBytesCall
    \/ UnsetDirtyCall
    \/ SetCall
    \/ DeleteCall
    \/ GetCall
    \/ WriteCall

ShardSpec == ShardInit /\ [][ShardNext]_vars

\* C19: a new or freshly deserialized shard is not dirty; every Set leaves
\* the shard dirty, whatever the hash; Get and Write leave the flag as it
\* is; and a dirty shard becomes clean only by UnsetDirty (or is replaced by
\* a new or deserialized shard).
C19_DirtyFlag ==
    /\ [][shardOp'.op \in {"newShard", "shardFromBytes"}
            => ~Dirty(shard')]_vars
    /\ [][shardOp'.op = "Set" => Dirty(shard')]_vars
    /\ [][shardOp'.op \in {"Get", "Write"}
            => Dirty(shard') = Dirty(shard)]_vars
    /\ [][Dirty(shard) /\ ~Dirty(shard')
            => shardOp'.op \in {"UnsetDirty", "newShard", "shardFromBytes"}]_vars

\* a Set of the hash the slot already held, on a clean shard, made it dirty
C19_Witness ==
    /\ shardOp.op = "Set"
    /\ Dirty(shard)
    /\ \A i \in 1..NumberOfRecordsPerLBAShard : shard.hashes[i] = NilHash

\* every slot of the shard is absent: a nil Hash or equal to nilHash
AllAbsent(s) ==
    /\ s # NoShard
    /\ \A i \in 1..NumberOfRecordsPerLBAShard :
          s.hashes[i] = NilHash \/ Equals(s.hashes[i], nilHash)

\* C20: Write of a shard whose 128 slots are all absent fails with the
\* nil-shard-write error and hands no byte to the writer.
C20_AbsentShardWriteFails ==
    [][shardOp'.op = "Write" /\ AllAbsent(shard)
         => shardOp'.err = errNilShardWrite /\ shardOp'.written = <<>>]_vars

\* the slot holds no block: a nil Hash or one equal to nilHash
Absent(h) == h = NilHash \/ Equals(h, nilHash)

\* Write returned without error and the writer took every byte
Wrote == shardOp.op = "Write" /\ shardOp.err = Nil

SliceOf(raw, i) == [k \in 1..HashSize |-> raw[HashSize * i + k]]

\* C22: shardFromBytes of a buffer shorter than BytesPerShard gives an error
\* and no shard; of a longer or equal one it gives a shard that is not
\* dirty, whose slot i holds bytes [HashSize*i, HashSize*i + HashSize) of
\* the buffer, and no hash where these bytes are all zero.
C22_ShardFromBytes ==
    [][shardOp'.op = "shardFromBytes"
         => IF Len(shardOp'.raw) < BytesPerShard
            THEN shardOp'.err # Nil /\ shard' = NoShard
            ELSE /\ shardOp'.err = Nil
                 /\ shard' # NoShard
                 /\ ~Dirty(shard')
                 /\ \A i \in 0..(NumberOfRecordsPerLBAShard - 1) :
                       shard'.hashes[i + 1] =
                           IF \A k \in 1..HashSize : shardOp'.raw[HashSize * i + k] = 0
                           THEN NilHash
                           ELSE SliceOf(shardOp'.raw, i)]_vars

\* a buffer longer than a shard was loaded and its last slot holds a hash
C22_Witness ==
    /\ shardOp.op = "shardFromBytes"
    /\ Len(shardOp.raw) > BytesPerShard
    /\ shardOp.err = Nil
    /\ shard.hashes[NumberOfRecordsPerLBAShard] # NilHash
    /\ shard.hashes[1] = NilHash

----------------------------------------------------------------------------
\* The block fetchers of the backup package (server_driver.go)

\* the largest index of a source block
MaxBlockIndex == 5

\* the largest ratio between the two block sizes
MaxRatio == 4

\* the smaller of the two block sizes, in bytes
BlockSizes == {1, 4}

\* io.EOF
EOF == "EOF"

\* any other error of the source fetcher
ErrFetch == "fetch failed"

\* a nil *blockIndexPair
NoPair == [Block |-> <<>>, Index |-> -1]

\* the source fetcher fails once, at this call (0: never)
FailAts == {0, 2}

\* what the source blocks hold: no zero byte, or zero bytes in groups of 4
Variants == {"full", "sparse"}

\* the block of the given size that the source holds at an index
BlockOf(index, variant, size) ==
    [k \in 1..size |->
        IF variant = "sparse" /\ (((k - 1) \div 4) + index) % 2 = 0 THEN 0
        ELSE 32 * index + k]

RECURSIVE StreamOf(_, _, _)
\* the blocks with the given indices, in increasing order of index
StreamOf(indices, variant, size) ==
    IF indices = {} THEN <<>>
    ELSE LET index == CHOOSE i \in indices : \A j \in indices : i <= j
         IN  <<[Block |-> BlockOf(index, variant, size), Index |-> index]>>
                 \o StreamOf(indices \ {index}, variant, size)

\* FetchBlock of the source fetcher
InFetch(in) ==
    LET called == [in EXCEPT !.calls = @ + 1]
    IN  IF in.errAt = called.calls
        THEN [in |-> called, pair |-> NoPair, err |-> ErrFetch]
        ELSE IF in.pos >= Len(in.stream)
        THEN [in |-> called, pair |-> NoPair, err |-> EOF]
        ELSE [in |-> [called EXCEPT !.pos = @ + 1],
              pair |-> in.stream[in.pos + 1], err |-> Nil]

sizedBlockFetcher(srcBS, dstBS) ==
    IF srcBS < dstBS THEN "ibf" ELSE IF srcBS > dstBS THEN "dbf" ELSE "in"

newInflationBlockFetcher(srcBS, dstBS) ==
    [srcBS |-> srcBS, dstBS |-> dstBS, ratio |-> dstBS \div srcBS,
     output |-> <<>>, offset |-> 0, prevIndex |-> 0]

newDeflationBlockFetcher(srcBS, dstBS) ==
    [srcBS |-> srcBS, dstBS |-> dstBS, ratio |-> srcBS \div dstBS,
     cb |-> <<>>, cbi |-> -1]

\* make([]byte, size)
Zeros(size) == [k \in 1..size |-> 0]

\* mutant: the block is copied to the start of the destination block
CopyAt_Start(output, offset, srcBS, block) ==
    [k \in 1..Len(output) |->
        IF k <= srcBS /\ k <= Len(block) THEN block[k] ELSE output[k]]

\* copy(output[offset:offset+srcBS], block)
CopyAt(output, offset, srcBS, block) ==
    [k \in 1..Len(output) |->
        IF k > offset /\ k <= offset + srcBS /\ k - offset <= Len(block)
        THEN block[k - offset]
        ELSE output[k]]

\* mutant: the destination block carries the index of its last source block
Emit_SourceIndex(f, in) ==
    [ibf |-> [f EXCEPT !.output = <<>>], in |-> in,
     pair |-> [Block |-> f.output, Index |-> f.prevIndex], err |-> Nil]

\* the inflator returns its destination block and forgets it
Emit(f, in) ==
    [ibf |-> [f EXCEPT !.output = <<>>], in |-> in,
     pair |-> [Block |-> f.output, Index |-> f.prevIndex \div f.ratio],
     err |-> Nil]

RECURSIVE InflateFill_DropOnError(_, _)
\* mutant: on an error of the source the partial output is given up
InflateFill_DropOnError(f, in) ==
    IF ~(f.offset < f.dstBS) THEN Emit(f, in)
    ELSE LET got == InFetch(in)
             indexDelta == got.pair.Index - f.prevIndex
             skip == f.prevIndex >= 0 /\ indexDelta > 1
             offset == IF skip THEN f.offset + (indexDelta - 1) * f.srcBS
                       ELSE f.offset
         IN  IF got.err = EOF THEN Emit(f, got.in)
             ELSE IF got.err # Nil
             THEN [ibf |-> [f EXCEPT !.output = <<>>], in |-> got.in,
                   pair |-> NoPair, err |-> got.err]
             ELSE IF skip /\ offset >= f.dstBS
             THEN Emit([f EXCEPT !.offset = offset], got.in)
             ELSE InflateFill_DropOnError(
                    [f EXCEPT !.prevIndex = got.pair.Index,
                              !.output = CopyAt(f.output, offset, f.srcBS,
                                                got.pair.Block),
                              !.offset = offset + f.srcBS],
                    got.in)

RECURSIVE InflateFill(_, _)
\* the loop that fills the destination block as far as possible
InflateFill(f, in) ==
    IF ~(f.offset < f.dstBS) THEN Emit(f, in)
    ELSE LET got == InFetch(in)
             indexDelta == got.pair.Index - f.prevIndex
             skip == f.prevIndex >= 0 /\ indexDelta > 1
             offset == IF skip THEN f.offset + (indexDelta - 1) * f.srcBS
                       ELSE f.offset
         IN  IF got.err = EOF THEN Emit(f, got.in)
             ELSE IF got.err # Nil
             THEN [ibf |-> f, in |-> got.in, pair |-> NoPair, err |-> got.err]
             ELSE IF skip /\ offset >= f.dstBS
             THEN Emit([f EXCEPT !.offset = offset], got.in)
             ELSE InflateFill(
                    [f EXCEPT !.prevIndex = got.pair.Index,
                              !.output = CopyAt(f.output, offset, f.srcBS,
                                                got.pair.Block),
                              !.offset = offset + f.srcBS],
                    got.in)

InflationFetchBlock(f, in) ==
    IF f.output = <<>>
    THEN LET got == InFetch(in)
             offset == (got.pair.Index % f.ratio) * f.srcBS
         IN  IF got.err # Nil
             THEN [ibf |-> f, in |-> got.in, pair |-> NoPair, err |-> got.err]
             ELSE InflateFill(
                    [f EXCEPT !.output = CopyAt(Zeros(f.dstBS), offset,
                                                f.srcBS, got.pair.Block),
                              !.offset = offset + f.srcBS,
                              !.prevIndex = got.pair.Index],
                    got.in)
    ELSE InflateFill(f, in)

\* mutant: no block counts as a nil block
isNilBlock_Never(block) == FALSE

isNilBlock(block) == \A k \in 1..Len(block) : block[k] = 0

\* FetchBlock of the fetcher the deflator wraps
UpFetch(chain, f, in) ==
    IF chain = "ibf+dbf" THEN InflationFetchBlock(f, in)
    ELSE [ibf |-> f, in |-> InFetch(in).in, pair |-> InFetch(in).pair,
          err |-> InFetch(in).err]

RECURSIVE DeflationFetchBlock(_, _, _, _)
DeflationFetchBlock(d, chain, f, in) ==
    IF Len(d.cb) > 0
    THEN LET block == SubSeq(d.cb, 1, d.dstBS)
             next == [d EXCEPT !.cb = SubSeq(d.cb, d.dstBS + 1, Len(d.cb)),
                               !.cbi = @ + 1]
         IN  IF ~isNilBlock(block)
             THEN [dbf |-> next, ibf |-> f, in |-> in,
                   pair |-> [Block |-> block, Index |-> d.cbi], err |-> Nil]
             ELSE DeflationFetchBlock(next, chain, f, in)
    ELSE LET got == UpFetch(chain, f, in)
         IN  IF got.err # Nil
             THEN [dbf |-> d, ibf |-> got.ibf, in |-> got.in, pair |-> NoPair,
                   err |-> got.err]
             ELSE DeflationFetchBlock(
                    [d EXCEPT !.cb = got.pair.Block,
                              !.cbi = got.pair.Index * d.ratio],
                    chain, got.ibf, got.in)

\* a source fetcher over a stream of blocks of the given size
NewIn(indices, variant, size, errAt) ==
    [NoIn EXCEPT !.stream = StreamOf(indices, variant, size), !.errAt = errAt]

\* sizedBlockFetcher(in, srcBS, dstBS) with srcBS <= dstBS
NewInflation ==
    \E srcBS \in BlockSizes, ratio \in 1..MaxRatio, variant \in Variants,
       indices \in SUBSET (0..MaxBlockIndex), errAt \in FailAts :
        /\ fetched.chain = "none"
        /\ bfIn' = NewIn(indices, variant, srcBS, errAt)
        /\ ibf' = IF sizedBlockFetcher(srcBS, srcBS * ratio) = "ibf"
                  THEN newInflationBlockFetcher(srcBS, srcBS * ratio)
                  ELSE NoIbf
        /\ fetched' = [NoFetched EXCEPT
                          !.chain = sizedBlockFetcher(srcBS, srcBS * ratio)]
        /\ UNCHANGED <<dbf, route, clusterVars, iterVars, factoryVars,
                   dynVars, shardVars,
                   ftpVars>>

\* sizedBlockFetcher(in, srcBS, dstBS) with srcBS > dstBS
NewDeflation ==
    \E dstBS \in BlockSizes, ratio \in 2..MaxRatio, variant \in Variants,
       indices \in SUBSET (0..MaxBlockIndex), errAt \in FailAts :
        /\ fetched.chain = "none"
        /\ bfIn' = NewIn(indices, variant, dstBS * ratio, errAt)
        /\ dbf' = newDeflationBlockFetcher(dstBS * ratio, dstBS)
        /\ fetched' = [NoFetched EXCEPT
                          !.chain = sizedBlockFetcher(dstBS * ratio, dstBS)]
        /\ UNCHANGED <<ibf, route, clusterVars, iterVars, factoryVars,
                   dynVars, shardVars,
                   ftpVars>>

\* an inflator wrapped by the deflator that undoes it
NewInflationDeflation ==
    \E srcBS \in BlockSizes, ratio \in 2..MaxRatio, variant \in Variants,
       indices \in SUBSET (0..MaxBlockIndex), errAt \in FailAts :
        /\ fetched.chain = "none"
        /\ bfIn' = NewIn(indices, variant, srcBS, errAt)
        /\ ibf' = newInflationBlockFetcher(srcBS, srcBS * ratio)
        /\ dbf' = newDeflationBlockFetcher(srcBS * ratio, srcBS)
        /\ fetched' = [NoFetched EXCEPT !.chain = "ibf+dbf"]
        /\ UNCHANGED <<route, clusterVars, iterVars, factoryVars,
                   dynVars, shardVars,
                   ftpVars>>

\* what the consumer has after a FetchBlock that gave (pair, err)
Fetched(pair, err) ==
    [fetched EXCEPT !.pairs = IF err = Nil THEN Append(@, pair) ELSE @,
                    !.err = err]

\* the consumer calls FetchBlock until it gets io.EOF
SourceFetchBlockCall ==
    /\ fetched.chain = "in"
    /\ fetched.err # EOF
    /\ bfIn' = InFetch(bfIn).in
    /\ fetched' = Fetched(InFetch(bfIn).pair, InFetch(bfIn).err)
    /\ UNCHANGED <<ibf, dbf, route, clusterVars, iterVars, factoryVars,
                   dynVars, shardVars,
                   ftpVars>>

InflationFetchBlockCall ==
    /\ fetched.chain = "ibf"
    /\ fetched.err # EOF
    /\ LET got == InflationFetchBlock(ibf, bfIn)
       IN  /\ ibf' = got.ibf
           /\ bfIn' = got.in
           /\ fetched' = Fetched(got.pair, got.err)
    /\ UNCHANGED <<dbf, route, clusterVars, iterVars, factoryVars,
                   dynVars, shardVars,
                   ftpVars>>

DeflationFetchBlockCall ==
    /\ fetched.chain \in {"dbf", "ibf+dbf"}
    /\ fetched.err # EOF
    /\ LET got == DeflationFetchBlock(dbf, fetched.chain, ibf, bfIn)
       IN  /\ dbf' = got.dbf
           /\ ibf' = got.ibf
           /\ bfIn' = got.in
           /\ fetched' = Fetched(got.pair, got.err)
    /\ UNCHANGED <<route, clusterVars, iterVars, factoryVars,
                   dynVars, shardVars,
                   ftpVars>>

FetchInit == route = RouteIdle /\ ClusterIdle /\ OtherIdle

FetchNext ==
    \/ NewInflation
    \/ NewDeflation
    \/ NewInflationDeflation
    \/ SourceFetchBlockCall
    \/ InflationFetchBlockCall
    \/ DeflationFetchBlockCall

FetchSpec == FetchInit /\ [][FetchNext]_vars

\* the source stream holds the indices 0, 1, 2, ... without a gap
Contiguous == \A j \in 1..Len(bfIn.stream) : bfIn.stream[j].Index = j - 1

\* the inflator was read until it returned io.EOF
Inflated == fetched.chain = "ibf" /\ fetched.err = EOF

\* byte m of the destination block with the given index, as the source
\* stream has it: the byte of the source block that covers it, or zero
SourceByte(index, m) ==
    LET at == index * ibf.ratio + ((m - 1) \div ibf.srcBS)
        hits == {j \in 1..Len(bfIn.stream) : bfIn.stream[j].Index = at}
    IN  IF hits = {} THEN 0
        ELSE bfIn.stream[CHOOSE j \in hits : TRUE].Block[((m - 1) % ibf.srcBS) + 1]

\* C23: read to its end, the inflator over a source with the indices 0..k
\* has given ceil((k+1)/r) blocks of r*b bytes with the indices 0, 1, 2, ...,
\* and together they are the source blocks one after the other, followed by
\* zeros up to the end of the last destination block.
C23_InflatorConservation ==
    (Inflated /\ Contiguous) =>
        /\ Len(fetched.pairs) =
              (Len(bfIn.stream) + ibf.ratio - 1) \div ibf.ratio
        /\ \A j \in 1..Len(fetched.pairs) :
              /\ fetched.pairs[j].Index = j - 1
              /\ Len(fetched.pairs[j].Block) = ibf.ratio * ibf.srcBS
              /\ \A m \in 1..(ibf.ratio * ibf.srcBS) :
                    fetched.pairs[j].Block[m] = SourceByte(j - 1, m)

\* a contiguous source that ends inside a destination span was inflated
\* into more than one block
C23_Witness ==
    /\ Inflated
    /\ Contiguous
    /\ Len(fetched.pairs) > 1
    /\ Len(bfIn.stream) % ibf.ratio # 0
    /\ bfIn.calls > Len(bfIn.stream) + 1

\* C24: read to its end, the inflator has put every source block with
\* index i into the destination block with index i div r, at byte offset
\* (i mod r) * srcBS; every other byte of a destination block is zero; and
\* there is one destination block per span: no source block is dropped or
\* put into another span.
C24_InflatorPlacesEveryBlock ==
    Inflated =>
        /\ \A n \in 1..Len(bfIn.stream) :
              \E j \in 1..Len(fetched.pairs) :
                  /\ fetched.pairs[j].Index =
                        bfIn.stream[n].Index \div ibf.ratio
                  /\ \A k \in 1..ibf.srcBS :
                        fetched.pairs[j].Block[
                            (bfIn.stream[n].Index % ibf.ratio) * ibf.srcBS + k]
                        = bfIn.stream[n].Block[k]
        /\ \A j \in 1..Len(fetched.pairs) :
              /\ \A m \in 1..ibf.dstBS :
                    fetched.pairs[j].Block[m] =
                        SourceByte(fetched.pairs[j].Index, m)
              /\ j > 1 => fetched.pairs[j - 1].Index < fetched.pairs[j].Index

\* the inflator from 4-byte to 16-byte blocks was read to its end over the
\* source stream (0, A), (1, B), (3, C)
InflatedABC ==
    /\ Inflated
    /\ ibf.srcBS = 4
    /\ ibf.dstBS = 16
    /\ Len(bfIn.stream) = 3
    /\ bfIn.stream[1].Index = 0
    /\ bfIn.stream[2].Index = 1
    /\ bfIn.stream[3].Index = 3

\* C25 as stated: (0, A), (1, B), (3, C) inflated from 4 to 16 bytes gives
\* the two destination blocks (0, A|B|0|0) and (0, 0|0|0|C).
C25_TwoBlocks ==
    InflatedABC =>
        fetched.pairs =
            <<[Block |-> bfIn.stream[1].Block \o bfIn.stream[2].Block
                           \o Zeros(4) \o Zeros(4),
               Index |-> 0],
              [Block |-> Zeros(4) \o Zeros(4) \o Zeros(4)
                           \o bfIn.stream[3].Block,
               Index |-> 0]>>

\* C25, amended: (0, A), (1, B), (3, C) inflated from 4 to 16 bytes gives
\* the one destination block (0, A|B|0|C).
C25_OneBlock ==
    InflatedABC =>
        fetched.pairs =
            <<[Block |-> bfIn.stream[1].Block \o bfIn.stream[2].Block
                           \o Zeros(4) \o bfIn.stream[3].Block,
               Index |-> 0]>>

\* the stream (0, A), (1, B), (3, C) of blocks without a zero byte was
\* inflated
C25_Witness == InflatedABC /\ \A k \in 1..4 : bfIn.stream[1].Block[k] # 0

\* slice k of a source block of the deflator
SliceAt(block, k) == SubSeq(block, k * dbf.dstBS + 1, (k + 1) * dbf.dstBS)

\* the slice has a byte that is not zero
NonZero(slice) == \E m \in 1..Len(slice) : slice[m] # 0

\* C26: the deflator gives slice k of a source block (s, B) with the index
\* s*r + k, in increasing order of index, and nothing else; and when it
\* returns io.EOF it has given every slice that is not all zero, and no
\* slice that is all zero.
C26_DeflatorSlices ==
    fetched.chain = "dbf" =>
        /\ \A j \in 1..Len(fetched.pairs) :
              /\ \E n \in 1..Len(bfIn.stream), k \in 0..(dbf.ratio - 1) :
                    /\ fetched.pairs[j].Index =
                          bfIn.stream[n].Index * dbf.ratio + k
                    /\ fetched.pairs[j].Block = SliceAt(bfIn.stream[n].Block, k)
              /\ NonZero(fetched.pairs[j].Block)
              /\ j > 1 => fetched.pairs[j - 1].Index < fetched.pairs[j].Index
        /\ fetched.err = EOF =>
              \A n \in 1..Len(bfIn.stream), k \in 0..(dbf.ratio - 1) :
                  NonZero(SliceAt(bfIn.stream[n].Block, k)) =>
                      \E j \in 1..Len(fetched.pairs) :
                          fetched.pairs[j].Index =
                              bfIn.stream[n].Index * dbf.ratio + k

\* the deflator was read to its end over blocks with zero slices, and it
\* gave fewer slices than the source blocks have
C26_Witness ==
    /\ fetched.chain = "dbf"
    /\ fetched.err = EOF
    /\ Len(fetched.pairs) > 1
    /\ Len(fetched.pairs) < Len(bfIn.stream) * dbf.ratio
    /\ Len(bfIn.stream) > 1

\* C27: a stream of source blocks none of which is all zero, read to its
\* end through the inflator and then the deflator of the same ratio, comes
\* out as it went in: the same (index, block) pairs in the same order.
C27_DeflateInflateIdentity ==
    (/\ fetched.chain = "ibf+dbf"
     /\ fetched.err = EOF
     /\ \A n \in 1..Len(bfIn.stream) : NonZero(bfIn.stream[n].Block))
        => fetched.pairs = bfIn.stream

----------------------------------------------------------------------------
\* The FTP driver of the backup package (server_driver.go)
\* A path is the sequence of its components, a component a sequence of
\* bytes; the components used here hold no '/' and are not "." or "..".

errInvalidHash == "invalid hash given"

\* an FTP command failed with an error other than 550
ErrFtp == "ftp: command failed"

ErrNotADir == "exists and is a file, not a dir"

ErrIsADir == "is a dir"

\* the roots of the driver: "" and "b"
Roots == {<<>>, <<<<98>>>>}

\* the hashes handed to the driver: of HashSize bytes, and a nil Hash
FtpHashes == ContentHashes \cup {NilHash}

\* what the readers handed to the driver hold
Contents == {<<1, 2>>, <<3, 4>>}

\* which FTP command of a call fails: none, the Stat of a directory, Mkdir,
\* the Stat of the file, Store before any byte is written, Store after a
\* part of the file is written
Fails == {"none", "stat", "mkdir", "statfile", "store", "partial"}

\* path.Join of two paths
Join(dir, file) == dir \o file

hashAsDirAndFile(hash) ==
    IF Len(hash) # HashSize THEN [dir |-> <<>>, file |-> <<>>, ok |-> FALSE]
    ELSE [dir |-> <<SubSeq(hash, 1, 2), SubSeq(hash, 3, 4)>>,
          file |-> SubSeq(hash, 5, Len(hash)), ok |-> TRUE]

\* client.Stat: "dir", "file", "noexists" (error 550) or "error"
Stat(f, path, failed) ==
    IF failed THEN "error"
    ELSE IF path \in f.dirs THEN "dir"
    ELSE IF \E file \in f.files : file.path = path THEN "file"
    ELSE "noexists"

RECURSIVE Walk(_, _, _, _, _)
\* the loop of mkdirs over the levels of dirs, from level i on
Walk(f, dirs, i, last, fail) ==
    IF i > Len(dirs) THEN [ftp |-> f, dir |-> last, err |-> Nil]
    ELSE LET pwd == Join(last, <<dirs[i]>>)
             info == Stat(f, pwd, fail = "stat")
         IN  IF pwd \in f.knownDirs THEN Walk(f, dirs, i + 1, pwd, fail)
             ELSE IF info = "noexists"
             THEN IF fail = "mkdir"
                  THEN [ftp |-> f, dir |-> <<>>, err |-> ErrFtp]
                  ELSE Walk([f EXCEPT !.dirs = @ \cup {pwd}], dirs, i + 1,
                            pwd, fail)
             ELSE IF info = "error"
             THEN [ftp |-> f, dir |-> <<>>, err |-> ErrFtp]
             ELSE IF info = "file"
             THEN [ftp |-> f, dir |-> <<>>, err |-> ErrNotADir]
             ELSE Walk([f EXCEPT !.knownDirs = @ \cup {pwd}], dirs, i + 1,
                       pwd, fail)

mkdirs(f, dir, fail) ==
    IF Join(f.root, dir) \in f.knownDirs
    THEN [ftp |-> f, dir |-> Join(f.root, dir), err |-> Nil]
    ELSE Walk(f, Join(f.root, dir), 1, <<>>, fail)

\* client.Store: the file holds the content, or a part of it when the
\* transfer breaks off
Store(f, path, content, fail) ==
    IF fail = "store" THEN [ftp |-> f, err |-> ErrFtp, stored |-> TRUE]
    ELSE [ftp |-> [f EXCEPT !.files =
                      {file \in @ : file.path # path} \cup
                      {[path |-> path,
                        content |-> IF fail = "partial"
                                    THEN SubSeq(content, 1, 1)
                                    ELSE content]}],
          err |-> IF fail = "partial" THEN ErrFtp ELSE Nil,
          stored |-> TRUE]

lazyStore(f, path, content, fail) ==
    LET info == Stat(f, path, fail = "statfile")
    IN  IF info = "noexists" THEN Store(f, path, content, fail)
        ELSE IF info = "error"
        THEN [ftp |-> f, err |-> ErrFtp, stored |-> FALSE]
        ELSE IF info = "dir"
        THEN [ftp |-> f, err |-> ErrIsADir, stored |-> FALSE]
        ELSE [ftp |-> f, err |-> Nil, stored |-> FALSE]

SetDedupedBlock(f, hash, content, fail) ==
    LET at == hashAsDirAndFile(hash)
        made == mkdirs(f, at.dir, fail)
    IN  IF ~at.ok
        THEN [ftp |-> f, err |-> errInvalidHash, stored |-> FALSE,
              path |-> <<>>]
        ELSE IF made.err # Nil
        THEN [ftp |-> made.ftp, err |-> made.err, stored |-> FALSE,
              path |-> <<>>]
        ELSE [path |-> Join(made.dir, <<at.file>>)] @@
             lazyStore(made.ftp, Join(made.dir, <<at.file>>), content, fail)

\* the path and the paths above it
Prefixes(path) == {SubSeq(path, 1, n) : n \in 1..Len(path)}

\* what the FTP server holds when the driver is made, around the place of
\* one hash: nothing; its directories; a file where its first directory
\* should be; a directory where its file should be
Layouts == {"empty", "dirs", "file in the way", "dir in the way"}

ServerDirs(layout, root, hash) ==
    LET at == hashAsDirAndFile(hash)
    IN  CASE layout = "empty" -> {}
          [] layout = "dirs" -> Prefixes(Join(root, at.dir))
          [] layout = "file in the way" -> Prefixes(root)
          [] layout = "dir in the way" ->
                Prefixes(Join(Join(root, at.dir), <<at.file>>))

ServerFiles(layout, root, hash) ==
    IF layout = "file in the way"
    THEN {[path |-> Join(root, <<hashAsDirAndFile(hash).dir[1]>>),
           content |-> <<>>]}
    ELSE {}

\* FTPDriver: the dial fails, or the driver starts without known dirs
FTPDriver ==
    \E root \in Roots, layout \in Layouts, hash \in ContentHashes,
       dialOk \in BOOLEAN :
        /\ ~ftp.made
        /\ ftpOp.op = "none"
        /\ ftp' = IF dialOk
                  THEN [made |-> TRUE, root |-> root, knownDirs |-> {},
                        dirs |-> ServerDirs(layout, root, hash),
                        files |-> ServerFiles(layout, root, hash)]
                  ELSE NoFtp
        /\ ftpOp' = [NoFtpOp EXCEPT !.op = "FTPDriver",
                                    !.err = IF dialOk THEN Nil ELSE ErrFtp]
        /\ UNCHANGED <<route, clusterVars, iterVars, factoryVars,
                   dynVars, shardVars, fetchVars>>

SetDedupedBlockCall ==
    \E hash \in FtpHashes, content \in Contents, fail \in Fails :
        /\ ftp.made
        /\ LET got == SetDedupedBlock(ftp, hash, content, fail)
           IN  /\ ftp' = got.ftp
               /\ ftpOp' = [op |-> "SetDedupedBlock", hash |-> hash,
                            content |-> content, err |-> got.err,
                            path |-> got.path, stored |-> got.stored]
        /\ UNCHANGED <<route, clusterVars, iterVars, factoryVars,
                   dynVars, shardVars, fetchVars>>

\* FTP error 550: the file does not exist
ErrNoExists == "550 no such file"

\* client.Retrieve: the content of the file at the path is written to w
Retrieve(f, path, failed) ==
    IF failed THEN [content |-> <<>>, err |-> ErrFtp]
    ELSE IF \E file \in f.files : file.path = path
    THEN [content |-> (CHOOSE file \in f.files : file.path = path).content,
          err |-> Nil]
    ELSE [content |-> <<>>, err |-> ErrNoExists]

GetDedupedBlock(f, hash, failed) ==
    LET at == hashAsDirAndFile(hash)
    IN  IF ~at.ok
        THEN [content |-> <<>>, err |-> errInvalidHash, path |-> <<>>]
        ELSE [path |-> Join(at.dir, <<at.file>>)] @@
             Retrieve(f, Join(at.dir, <<at.file>>), failed)

GetDedupedBlockCall ==
    \E hash \in FtpHashes, failed \in BOOLEAN :
        /\ ftp.made
        /\ LET got == GetDedupedBlock(ftp, hash, failed)
           IN  ftpOp' = [op |-> "GetDedupedBlock", hash |-> hash,
                         content |-> got.content, err |-> got.err,
                         path |-> got.path, stored |-> FALSE]
        /\ UNCHANGED <<ftp, route, clusterVars, iterVars, factoryVars,
                       dynVars, shardVars, fetchVars>>

FtpInit == route = RouteIdle /\ ClusterIdle /\ OtherIdle

FtpNext == FTPDriver \/ SetDedupedBlockCall \/ GetDedupedBlockCall

FtpSpec == FtpInit /\ [][FtpNext]_vars

\* the files the server holds for the hash: at the place the driver
\* stores it
ObjectsOf(f, hash) ==
    {file \in f.files :
        file.path = Join(Join(f.root, hashAsDirAndFile(hash).dir),
                         <<hashAsDirAndFile(hash).file>>)}

\* C28: a SetDedupedBlock for a hash that has an object calls no Store and
\* leaves the files as they are; and a file appears or changes at the server
\* only by a SetDedupedBlock that succeeds, where no file was: an object
\* holds what the first successful store of its hash gave.
C28_SetDedupedBlockIdempotent ==
    /\ [][(ftpOp'.op = "SetDedupedBlock" /\ ftp.made
            /\ ObjectsOf(ftp, ftpOp'.hash) # {})
          => ~ftpOp'.stored /\ ftp'.files = ftp.files]_vars
    /\ [][(ftp.made /\ ftp'.files # ftp.files)
          => /\ ftpOp'.err = Nil
             /\ ftpOp'.stored
             /\ ObjectsOf(ftp, ftpOp'.hash) = {}
             /\ ftp'.files = ftp.files \cup
                   {[path |-> ftpOp'.path, content |-> ftpOp'.content]}]_vars

----------------------------------------------------------------------------
\* Properties of NewCluster and of the server iterator

\* NewCluster succeeded
ClusterMade == newCall.fn = "NewCluster" /\ newCall.err = Nil

\* how many of the configured servers have one of the states
CountOf(cfgServers, states) ==
    Cardinality({i \in 1..Len(cfgServers) : cfgServers[i] \in states})

\* C29 as stated: after NewCluster succeeds serverCount is the length of
\* the configured server list and availableServerCount is the number of
\* configured servers that are Online or RIP.
C29_AvailableCountsOnlineAndRIP ==
    ClusterMade =>
        /\ cluster.serverCount = Len(newCall.cfg)
        /\ cluster.availableServerCount =
              CountOf(newCall.cfg, {"Online", "RIP"})

\* C29, amended: after NewCluster succeeds serverCount is the length of the
\* configured server list and availableServerCount is the number of
\* configured servers that are Online; RIP servers are not counted.
C29_AvailableCountsOnline ==
    ClusterMade =>
        /\ cluster.serverCount = Len(newCall.cfg)
        /\ cluster.availableServerCount = CountOf(newCall.cfg, {"Online"})

\* a cluster was made of a configuration with a RIP server
C29_Witness == ClusterMade /\ CountOf(newCall.cfg, {"RIP"}) > 0

----------------------------------------------------------------------------
(* Cluster.ServerIterator: a goroutine ranges over cluster.servers, skips
   the servers that are not Online and sends every other one on an
   unbuffered channel, unless the context is done; the channel is closed
   when the goroutine returns.  iter.i is the position of the range in the
   configured list (1-based), iter.ch the positions of the servers the
   consumer received, in the order of reception. *)

\* ServerCount of a Cluster
ServerCount(cl) == cl.availableServerCount

Yields_NotOffline(cfgState) == cfgState # "Offline"

\* the state check of the loop: a server that is not Online is skipped
Yields(cfgState) == cfgState = "Online"

ServerIteratorCall ==
    /\ cluster.kind = "Cluster"
    /\ iter.pc = "none"
    /\ iter' = [pc |-> "range", i |-> 1, ch |-> <<>>, closed |-> FALSE,
                ctxDone |-> FALSE]
    /\ UNCHANGED <<route, clusterVars, factoryVars, dynVars, shardVars,
                   backupVars>>

\* the caller (or a deadline) cancels the context while the goroutine runs
IterCancel ==
    /\ iter.pc = "range"
    /\ ~iter.ctxDone
    /\ iter' = [iter EXCEPT !.ctxDone = TRUE]
    /\ UNCHANGED <<route, clusterVars, factoryVars, dynVars, shardVars,
                   backupVars>>

\* continue: the server at the range's position is not Online
IterSkip ==
    /\ iter.pc = "range"
    /\ iter.i <= Len(cluster.servers)
    /\ ~Yields(cluster.servers[iter.i])
    /\ iter' = [iter EXCEPT !.i = @ + 1]
    /\ UNCHANGED <<route, clusterVars, factoryVars, dynVars, shardVars,
                   backupVars>>

\* select, case ch <- server: the consumer receives the server
IterSend ==
    /\ iter.pc = "range"
    /\ iter.i <= Len(cluster.servers)
    /\ Yields(cluster.servers[iter.i])
    /\ iter' = [iter EXCEPT !.ch = Append(@, iter.i), !.i = @ + 1]
    /\ UNCHANGED <<route, clusterVars, factoryVars, dynVars, shardVars,
                   backupVars>>

\* select, case <-ctx.Done(): return, and the deferred close(ch)
IterCtxDone ==
    /\ iter.pc = "range"
    /\ iter.i <= Len(cluster.servers)
    /\ Yields(cluster.servers[iter.i])
    /\ iter.ctxDone
    /\ iter' = [iter EXCEPT !.pc = "done", !.closed = TRUE]
    /\ UNCHANGED <<route, clusterVars, factoryVars, dynVars, shardVars,
                   backupVars>>

\* the range is exhausted: the goroutine returns, the deferred close(ch)
IterReturn ==
    /\ iter.pc = "range"
    /\ iter.i > Len(cluster.servers)
    /\ iter' = [iter EXCEPT !.pc = "done", !.closed = TRUE]
    /\ UNCHANGED <<route, clusterVars, factoryVars, dynVars, shardVars,
                   backupVars>>

IterInit == route = RouteIdle /\ ClusterIdle /\ OtherIdle

IterNext ==
    \/ NewClusterCall
    \/ ServerIteratorCall
    \/ IterCancel
    \/ IterSkip
    \/ IterSend
    \/ IterCtxDone
    \/ IterReturn

IterSpec == IterInit /\ [][IterNext]_vars

\* the positions of the Online servers, in configuration order
OnlineServers(cfgServers) ==
    SelectSeq([i \in 1..Len(cfgServers) |-> i],
              LAMBDA i : cfgServers[i] = "Online")

IsPrefix(s, t) == Len(s) <= Len(t) /\ SubSeq(t, 1, Len(s)) = s

\* C30 as stated: when the channel of Cluster.ServerIterator is closed, the
\* consumer has received exactly the Online servers, each once, in
\* configuration order, and as many servers as ServerCount returns.
C30_IteratorYieldsAllOnline ==
    iter.closed =>
        /\ iter.ch = OnlineServers(cluster.servers)
        /\ Len(iter.ch) = ServerCount(cluster)

\* C30, amended: what the consumer has received is at any time a prefix of
\* the Online servers in configuration order (each at most once, no server
\* that is not Online); when the channel is closed and the context was not
\* cancelled, it is all of them, and their number is what ServerCount
\* returns.
C30_IteratorYieldsOnline ==
    iter.pc # "none" =>
        /\ IsPrefix(iter.ch, OnlineServers(cluster.servers))
        /\ iter.closed /\ ~iter.ctxDone =>
              /\ iter.ch = OnlineServers(cluster.servers)
              /\ Len(iter.ch) = ServerCount(cluster)

\* a RIP server between two Online servers, both received, channel closed
C30_Witness ==
    /\ iter.closed
    /\ ~iter.ctxDone
    /\ Len(iter.ch) = 2
    /\ \E i \in 1..Len(cluster.servers) :
          /\ cluster.servers[i] = "RIP"
          /\ iter.ch[1] < i
          /\ i < iter.ch[2]

----------------------------------------------------------------------------
(* Cluster.DoForAll with two or more pairs: the batches. *)

ManyPairs ==
    cluster.kind = "Cluster" /\ call.op = "DoForAll" /\ Len(call.pairs) >= 2

\* the pairs that DoFor would send to the server, in input order
PairsFor(serverIndex) ==
    SelectSeq(call.pairs, LAMBDA pair : TargetServer(pair.Index) = serverIndex)

\* the goroutine of the server (or the single-server shortcut) called doAt
BatchApplied(serverIndex) ==
    IF DOMAIN worker = {} THEN mainPc = "returned"
    ELSE worker[serverIndex].pc # "run"

\* C31: in a Cluster.DoForAll call with two or more pairs, a server that no
\* pair routes to (by DoFor's routing) is never called; a server that pairs
\* route to is called at most once, with one pipelined batch that holds the
\* actions of exactly its pairs, in input order; once its goroutine has
\* applied the batch it was called exactly once.  Every pair's action is so
\* handed over exactly once, to the server DoFor selects for its index.
C31_OneBatchPerTarget ==
    ManyPairs =>
        \A serverIndex \in DOMAIN doAtLog :
            IF PairsFor(serverIndex) = <<>>
            THEN doAtLog[serverIndex] = <<>>
            ELSE /\ Len(doAtLog[serverIndex]) <= 1
                 /\ \A k \in 1..Len(doAtLog[serverIndex]) :
                        doAtLog[serverIndex][k].action =
                            Commands(ActionsOf(PairsFor(serverIndex)))
                 /\ BatchApplied(serverIndex) => Len(doAtLog[serverIndex]) = 1

\* two servers were called, one with a batch of two actions and one with a
\* batch of one, and all goroutines are gone
C31_Witness ==
    /\ ManyPairs
    /\ chClosed
    /\ \E s, t \in DOMAIN doAtLog :
        /\ Len(PairsFor(s)) = 2
        /\ Len(PairsFor(t)) = 1
        /\ Len(doAtLog[s]) = 1
        /\ Len(doAtLog[t]) = 1

----------------------------------------------------------------------------
(* The dynamic clusters, further properties. *)

\* a DoFor on the dynamic cluster has invoked ComputeServerIndex and has not
\* returned since
Routing ==
    dynCall.op = "DoFor" /\ dynCall.pc \in {"locked", "looping", "panicked"}

HasOnlineServer(cl) ==
    \E i \in 1..Len(cl.servers) : cl.servers[i] = "Online"

\* C32: whenever a DoFor of a dynamic cluster (PrimaryCluster,
\* TemplateCluster) invokes ComputeServerIndex, the serverCount of the
\* cluster is at least 1 and at least one of its servers is Online, so that
\* the call neither divides by zero nor searches forever under the read lock.
C32_RoutingHasOnlineServer ==
    Routing =>
        /\ dyn.serverCount >= 1
        /\ HasOnlineServer(dyn)
        /\ dynCall.pc = "locked"

\* a Do / DoFor holds the read lock of the dynamic cluster
ReadLocked == dynCall.pc \in {"locked", "looping"}

\* C33: while a Do / DoFor on a dynamic cluster holds the read lock,
\* serverCount equals len(servers), the index it routed to is within the
\* server list, and no step (config reload, detach) changes servers or
\* serverCount: the call dials in the list it routed in.
C33_OneVersionPerCall ==
    /\ [](ReadLocked => dyn.serverCount = Len(dyn.servers))
    /\ [](dynCall.pc = "locked" => InRange(dyn.servers, dynCall.serverIndex))
    /\ [][ReadLocked => /\ dyn'.servers = dyn.servers
                        /\ dyn'.serverCount = dyn.serverCount]_vars

\* a call has routed and not yet dialed while the reloader holds a config
\* with another server list, to be applied
C33_Witness ==
    /\ dynCall.pc = "locked"
    /\ reloader.pc = "update"
    /\ reloader.cfg.Servers # dyn.servers
    /\ UpdateConfig(dyn, reloader.cfg).err = Nil

\* the reloader handles a reference update naming clusterID
RefUpdateOf(clusterID, openOk) ==
    \/ PrimaryRefUpdateOf(clusterID, openOk)
    \/ TemplateRefUpdateOf(clusterID, openOk)
    \/ FileTemplateRefUpdateOf(clusterID, openOk)

\* the inner watchers that are not cancelled
Uncancelled(in) == {i \in DOMAIN in : ~in[i].cancelled}

\* C34: when the reloader of a dynamic cluster that is not closed handles a
\* reference update naming a non-empty cluster ID other than the active one,
\* then, if the opening of the new inner watcher fails, no inner watcher is
\* cancelled, and if it succeeds, the active cluster ID, the update channel
\* and the cancel handle are those of the new watcher, which is the only
\* inner watcher left uncancelled.
C34_NewWatcherReplacesOld ==
    [][\A clusterID \in ClusterIDs, openOk \in BOOLEAN :
        (Opens(clusterID) /\ dynCtx = "live"
                /\ RefUpdateOf(clusterID, openOk)) =>
            IF openOk
            THEN /\ Len(inner') = Len(inner) + 1
                 /\ inner'[Len(inner')].clusterID = clusterID
                 /\ watcher'.clusterID = clusterID
                 /\ watcher'.channel = Len(inner')
                 /\ watcher'.cancel = Len(inner')
                 /\ Uncancelled(inner') = {Len(inner')}
            ELSE inner' = inner]_vars

\* C35: once the TemplateCluster has been detached by a reference update
\* with an empty cluster ID and its servers were deleted, the servers stay
\* zero-length as long as no cluster is referenced: no config from the
\* channel of the cancelled watcher is applied to the cluster.
C35_DetachedStaysEmpty ==
    [][(dyn.kind = TemplateKind /\ ~Defined(watcher) /\ ~Defined(watcher')
            /\ dyn.servers = <<>>) =>
        /\ dyn'.servers = <<>>
        /\ dyn'.serverCount = 0]_vars

\* what the reloader's handling of a reference update naming clusterID, with
\* a watcher that opens, leaves of the watcher and of the inner watchers
Handled(clusterID) ==
    IF dyn.kind = FileTemplateKind
    THEN FileRefUpdate(watcher, inner, dynCtx, clusterID, TRUE)
    ELSE SetClusterID(watcher, inner, invalidKeys, dynCtx, clusterID, TRUE)

\* the cluster ID of the cluster-config watcher whose channel the reloader
\* receives from, "" when there is none or when it is cancelled
InUse(scw, in) ==
    IF scw.channel # 0 /\ ~in[scw.channel].cancelled
    THEN in[scw.channel].clusterID
    ELSE ""

\* C36: whatever reference updates the reloader of a dynamic cluster has
\* handled so far, when it handles one more (before Close, its watcher
\* opening), the cluster-config watcher in use afterwards is the one of the
\* cluster ID that this most recent update names, none if the ID is empty;
\* so A, then B, then A again ends up watching A.
C36_WatchesLatestReference ==
    (dyn.kind # "none" /\ Selecting /\ dynCtx = "live") =>
        \A clusterID \in ClusterIDs \cup {""} :
            InUse(Handled(clusterID).watcher, Handled(clusterID).inner)
                = clusterID

----------------------------------------------------------------------------
(* Cluster.DoForAll: the goroutines after the return. *)

\* the scheduling of the goroutines of DoForAll: the doAt of a worker
\* returns, a worker whose select has the case <-ctx.Done() ready for good
\* takes it, and wg.Wait() returns once every worker is done
FairClusterSpec ==
    /\ ClusterSpec
    /\ \A serverIndex \in 0..(MaxServers - 1) :
        WF_vars(/\ serverIndex \in DOMAIN worker
                /\ \/ WorkerRun(serverIndex)
                   \/ WorkerCancelled(serverIndex))
    /\ WF_vars(CloseChannel)

\* every goroutine that DoForAll spawned is gone: the workers have sent or
\* left through ctx.Done(), and the closing goroutine has closed the channel
GoroutinesGone ==
    /\ \A serverIndex \in DOMAIN worker :
            worker[serverIndex].pc \in {"sent", "cancelled"}
    /\ DOMAIN worker # {} => chClosed

\* C37: after Cluster.DoForAll has returned, with the replies or early with
\* an error, every worker goroutine and the channel-closing goroutine
\* terminate eventually.
C37_GoroutinesTerminate ==
    (cluster.kind = "Cluster" /\ DoForAllReturned) ~> GoroutinesGone

\* the call returned early with an error while another worker has not sent
C37_Witness ==
    /\ cluster.kind = "Cluster" /\ DoForAllReturned
    /\ result.err # Nil
    /\ \E serverIndex \in DOMAIN worker :
            worker[serverIndex].pc \in {"run", "send"}

----------------------------------------------------------------------------
(* The inflator and an error of the source fetcher. *)

RECURSIVE ReadAll(_, _)
\* the blocks that a consumer gets who calls FetchBlock of the inflator
\* until it returns io.EOF, going on after any other error
ReadAll(f, in) ==
    LET got == InflationFetchBlock(f, in)
    IN  IF got.err = EOF THEN <<>>
        ELSE IF got.err # Nil THEN ReadAll(got.ibf, got.in)
        ELSE <<got.pair>> \o ReadAll(got.ibf, got.in)

\* the same source fetcher, rewound and never failing
Unfailing(in) == [in EXCEPT !.pos = 0, !.calls = 0, !.errAt = 0]

\* a FetchBlock call of the inflator in which the source fetcher failed
SourceFailed ==
    /\ fetched.chain = "ibf"
    /\ bfIn'.calls > bfIn.calls
    /\ fetched'.err = ErrFetch

\* C38: a FetchBlock call of the inflator in which the source fetcher fails
\* (not with io.EOF) returns that error and no block, and keeps the
\* destination block it has filled in part: its bytes, offset and previous
\* index are those reached with the source blocks fetched so far.  Read to
\* the end, the inflator has then given the very blocks it gives over the
\* same source when that never fails: no source block fetched before the
\* error is lost or emitted twice.
C38_ErrorKeepsPartialBlock ==
    /\ [][SourceFailed =>
            /\ fetched'.pairs = fetched.pairs
            /\ ibf.output # <<>> =>
                /\ ibf'.output # <<>>
                /\ ibf'.offset >= ibf.offset
                /\ \A m \in 1..ibf.offset : ibf'.output[m] = ibf.output[m]
            /\ (ibf.output = <<>> /\ bfIn'.calls > bfIn.calls + 1) =>
                /\ ibf'.output # <<>>
                /\ ibf'.prevIndex = bfIn.stream[bfIn'.pos].Index]_vars
    /\ []((Inflated /\ bfIn.errAt # 0) =>
            fetched.pairs =
                ReadAll(newInflationBlockFetcher(ibf.srcBS, ibf.dstBS),
                        Unfailing(bfIn)))

\* the source failed after its first block, and the first destination block
\* holds that block and the one fetched after the error
C38_Witness ==
    /\ Inflated
    /\ bfIn.errAt = 2
    /\ Len(bfIn.stream) >= 2
    /\ bfIn.stream[1].Index = 0 /\ bfIn.stream[2].Index = 1
    /\ fetched.pairs[1].Block[1] = bfIn.stream[1].Block[1]
    /\ fetched.pairs[1].Block[ibf.srcBS + 1] = bfIn.stream[2].Block[1]
    /\ bfIn.stream[1].Block[1] # 0
    /\ bfIn.stream[2].Block[1] # 0

----------------------------------------------------------------------------
(* ClusterClientFactory: NewClient sends the vdiskID on the unbuffered
   requestCh and then receives from the unbuffered responseCh; Listen
   receives a request, creates the ClusterClient and sends the response
   before it selects again.  factory.callers holds the goroutines that call
   NewClient (one call each), factory.produced counts the responses that
   Listen made for the request of each of them. *)

\* how many goroutines call NewClient
MaxCallers == 3

VdiskIDs == {"", "a", "b"}

ConfigPaths == {"", "cfg"}

ErrEmptyConfigPath == "NewClusterClientFactory requires a non-empty config path"
ErrEmptyVdiskID == "ClusterClient requires a non-empty vdiskID"
ErrLoadConfig == "couldn't load configuration"

\* a goroutine that has not called NewClient; from is the caller whose
\* request the response it received was made for
NoCaller == [pc |-> "idle", vdiskID |-> "", cc |-> NoClient, err |-> Nil,
             from |-> 0]

NewClusterClientFactory(configPath) ==
    IF configPath = ""
    THEN [NoFactory EXCEPT !.err = ErrEmptyConfigPath]
    ELSE [NoFactory EXCEPT !.made = TRUE,
                           !.callers = [c \in 1..MaxCallers |-> NoCaller],
                           !.produced = [c \in 1..MaxCallers |-> 0]]

\* mutant: the client is created without the vdiskID of the request
NewClusterClient_NoVdiskID(vdiskID, loaded) ==
    IF ~loaded THEN [Client |-> NoClient, Error |-> ErrLoadConfig]
    ELSE [Client |-> [made |-> TRUE, vdiskID |-> ""], Error |-> Nil]

\* NewClusterClient as Listen calls it; loaded is what cc.loadConfig() gives
NewClusterClient(vdiskID, loaded) ==
    IF ~loaded THEN [Client |-> NoClient, Error |-> ErrLoadConfig]
    ELSE [Client |-> [made |-> TRUE, vdiskID |-> vdiskID], Error |-> Nil]

NewClusterClientFactoryCall ==
    /\ ~factory.made
    /\ factory.err = Nil
    /\ \E configPath \in ConfigPaths :
        factory' = NewClusterClientFactory(configPath)
    /\ UNCHANGED <<route, clusterVars, iterVars, dynVars, shardVars,
                   backupVars>>

\* go factory.Listen(ctx)
ListenCall ==
    /\ factory.made
    /\ factory.listen.pc = "none"
    /\ factory' = [factory EXCEPT !.listen.pc = "select"]
    /\ UNCHANGED <<route, clusterVars, iterVars, dynVars, shardVars,
                   backupVars>>

\* NewClient up to f.requestCh <- vdiskID
NewClientCall(c) ==
    /\ factory.made
    /\ factory.callers[c].pc = "idle"
    /\ \E vdiskID \in VdiskIDs :
        factory' = [factory EXCEPT !.callers[c] =
            IF vdiskID = ""
            THEN [NoCaller EXCEPT !.pc = "returned", !.err = ErrEmptyVdiskID]
            ELSE [NoCaller EXCEPT !.pc = "send", !.vdiskID = vdiskID]]
    /\ UNCHANGED <<route, clusterVars, iterVars, dynVars, shardVars,
                   backupVars>>

\* f.requestCh <- vdiskID meets case vdiskID := <-f.requestCh; Listen
\* creates the client, up to its send on responseCh
Request(c) ==
    /\ factory.callers[c].pc = "send"
    /\ factory.listen.pc = "select"
    /\ \E loaded \in BOOLEAN :
        LET made == NewClusterClient(factory.callers[c].vdiskID, loaded)
        IN  factory' = [factory EXCEPT
                !.callers[c].pc = "receive",
                !.listen = [pc |-> "respond", Client |-> made.Client,
                            Error |-> made.Error, from |-> c],
                !.produced[c] = @ + 1]
    /\ UNCHANGED <<route, clusterVars, iterVars, dynVars, shardVars,
                   backupVars>>

\* f.responseCh <- clusterClientResponse{...} meets resp := <-f.responseCh
\* of a caller, which returns resp.Client and resp.Error
Response(c) ==
    /\ factory.listen.pc = "respond"
    /\ factory.callers[c].pc = "receive"
    /\ factory' = [factory EXCEPT
            !.callers[c] = [@ EXCEPT !.pc = "returned",
                                     !.cc = factory.listen.Client,
                                     !.err = factory.listen.Error,
                                     !.from = factory.listen.from],
            !.listen = [NoListen EXCEPT !.pc = "select"]]
    /\ UNCHANGED <<route, clusterVars, iterVars, dynVars, shardVars,
                   backupVars>>

\* the context given to Listen is cancelled
FactoryCancel ==
    /\ factory.made
    /\ ~factory.ctxDone
    /\ factory' = [factory EXCEPT !.ctxDone = TRUE]
    /\ UNCHANGED <<route, clusterVars, iterVars, dynVars, shardVars,
                   backupVars>>

\* case <-ctx.Done(): return
ListenDone ==
    /\ factory.listen.pc = "select"
    /\ factory.ctxDone
    /\ factory' = [factory EXCEPT !.listen.pc = "exited"]
    /\ UNCHANGED <<route, clusterVars, iterVars, dynVars, shardVars,
                   backupVars>>

FactoryInit == route = RouteIdle /\ ClusterIdle /\ OtherIdle

FactoryNext ==
    \/ NewClusterClientFactoryCall
    \/ ListenCall
    \/ \E c \in DOMAIN factory.callers : NewClientCall(c)
    \/ \E c \in DOMAIN factory.callers : Request(c)
    \/ \E c \in DOMAIN factory.callers : Response(c)
    \/ FactoryCancel
    \/ ListenDone

FactorySpec == FactoryInit /\ [][FactoryNext]_vars

\* C39: with several goroutines calling NewClient while Listen runs, Listen
\* makes at most one response for the request of each call, none before it
\* got the request; the call that returns got the one response made for its
\* own request, and the client in it, if any, is the client of its own
\* vdiskID.
C39_ResponseToItsCaller ==
    \A c \in DOMAIN factory.callers :
        LET caller == factory.callers[c]
        IN  /\ factory.produced[c] <= 1
            /\ caller.pc \in {"idle", "send"} => factory.produced[c] = 0
            /\ caller.pc = "receive" => factory.produced[c] = 1
            /\ (caller.pc = "returned" /\ caller.vdiskID # "") =>
                /\ factory.produced[c] = 1
                /\ caller.from = c
                /\ caller.err = Nil =>
                    /\ caller.cc.made
                    /\ caller.cc.vdiskID = caller.vdiskID
                /\ caller.err # Nil => caller.cc = NoClient

\* three calls have returned: two with the clients of different vdisks, one
\* with the error of a failed creation
C39_Witness ==
    /\ factory.made
    /\ \A c \in DOMAIN factory.callers : factory.callers[c].pc = "returned"
    /\ \E c, d, e \in DOMAIN factory.callers :
        /\ factory.callers[c].cc = [made |-> TRUE, vdiskID |-> "a"]
        /\ factory.callers[d].cc = [made |-> TRUE, vdiskID |-> "b"]
        /\ factory.callers[e].err = ErrLoadConfig

----------------------------------------------------------------------------
(* The FTP driver: reading a block back. *)

\* C40: GetDedupedBlock of a valid hash retrieves from the path at which
\* SetDedupedBlock stores the block of that hash, whatever the root of the
\* driver: when the server holds the object of the hash, the call does not
\* fail for want of the file, and what it retrieves is that object.
C40_GetReadsWhereSetStores ==
    [][(ftpOp'.op = "GetDedupedBlock" /\ Len(ftpOp'.hash) = HashSize) =>
        /\ ftpOp'.path =
              Join(Join(ftp.root, hashAsDirAndFile(ftpOp'.hash).dir),
                   <<hashAsDirAndFile(ftpOp'.hash).file>>)
        /\ ObjectsOf(ftp, ftpOp'.hash) # {} =>
              /\ ftpOp'.err # ErrNoExists
              /\ ftpOp'.err = Nil =>
                    \E file \in ObjectsOf(ftp, ftpOp'.hash) :
                        ftpOp'.content = file.content]_vars

============================================================================
